---- MODULE Spec2Model ----
(***************************************************************************)
(* Model of the resilience layer of the Drip SDK (src/src/resilience.ts):  *)
(* the token-bucket RateLimiter, the CircuitBreaker, the retry utilities,  *)
(* the MetricsCollector and ResilienceManager.execute, with several        *)
(* execute calls interleaving at their await points.                       *)
(*                                                                         *)
(* Time is the integer millisecond clock Date.now().  Tokens are kept in   *)
(* thousandths of a token, so the refill                                   *)
(*   tokens + (elapsedMs / 1000) * requestsPerSecond                       *)
(* is the exact integer  tokens + elapsedMs * requestsPerSecond.           *)
(***************************************************************************)
EXTENDS Integers, Sequences, FiniteSets, TLC

\* ---------------------------------------------------------------- bounds
NumCalls == 2          \* calls (of execute, of flush) that can be in flight at once
MaxRetries == 2        \* config.retry.maxRetries of the retrying configs
MaxTicks == 2          \* clock advances
ClockStep == 30000     \* milliseconds per clock advance
MaxThreshold == 2      \* largest failureThreshold / successThreshold tried
MaxFailureCount == 4   \* recordFailure is not called beyond this failureCount
MaxBurst == 2          \* largest burstSize of a limiter used on its own
LimiterStep == 500     \* milliseconds per clock advance of a limiter used on its own
MaxLimiterTicks == 2   \* the limiter's clock stops at MaxLimiterTicks * LimiterStep
MaxRecords == 4        \* record calls made on a collector used on its own
MaxWindow == 2         \* largest windowSize of a collector used on its own
MaxPercentileLen == 101  \* longest window whose percentiles are taken
MaxAttempt == 4        \* largest attempt number handed to calculateBackoff
MaxReturned == 2       \* configurations handed out by the preset factories
MaxUsage == 4          \* largest sum of the quantities added to a StreamMeter

\* ------------------------------------------------------ program constants
AcquireTimeoutMs == 30000      \* execute: rateLimiter.acquire(30000)
DefaultWindowSize == 1000      \* MetricsCollector(windowSize = 1000)
SuccessStatusCode == 200       \* statusCode of a success metric
TokenUnit == 1000              \* one token, in thousandths
Null == -1                     \* null / undefined of a number-valued field
Milli == 1000                  \* successRate and avgLatencyMs, in thousandths

CircuitName == "drip_api"

Min2(a, b) == IF a <= b THEN a ELSE b
Max2(a, b) == IF a >= b THEN a ELSE b

RECURSIVE Pow(_, _)
Pow(b, n) == IF n <= 0 THEN 1 ELSE b * Pow(b, n - 1)

\* =========================================================================
\* RateLimiter
\* =========================================================================

\* constructor: a full bucket, lastRefill = Date.now()
NewRateLimiter(c, t) == [tokens |-> c.burstSize * TokenUnit, lastRefill |-> t]

\* refill, without the cap at burstSize
refill_uncapped(l, c, t) ==
  [tokens     |-> l.tokens + (t - l.lastRefill) * c.requestsPerSecond,
   lastRefill |-> t]

\* refill(): tokens = min(burstSize, tokens + elapsed * requestsPerSecond)
refill(l, c, t) ==
  [tokens     |-> Min2(c.burstSize * TokenUnit,
                       l.tokens + (t - l.lastRefill) * c.requestsPerSecond),
   lastRefill |-> t]

\* acquireIteration, giving up as soon as the next token would come after the
\* deadline instead of waiting for the deadline
acquireIteration_givesUpEarly(l, c, t, deadline) ==
  LET r == refill(l, c, t)
      remaining == deadline - t
  IN  IF r.tokens >= TokenUnit
        THEN [limiter |-> [r EXCEPT !.tokens = r.tokens - TokenUnit],
              does |-> "granted", ms |-> 0]
      ELSE IF c.requestsPerSecond = 0
              \/ remaining <= ((TokenUnit - r.tokens) * 1000)
                                \div (Max2(1, c.requestsPerSecond) * TokenUnit)
        THEN [limiter |-> r, does |-> "timeout", ms |-> 0]
      ELSE [limiter |-> r, does |-> "sleep",
            ms |-> ((TokenUnit - r.tokens) * 1000) \div (c.requestsPerSecond * TokenUnit)]

\* acquireIteration, testing the deadline before looking for a token
acquireIteration_deadlineFirst(l, c, t, deadline) ==
  LET r == refill(l, c, t)
  IN  IF deadline # Null /\ deadline - t < 0
        THEN [limiter |-> r, does |-> "timeout", ms |-> 0]
      ELSE IF r.tokens >= TokenUnit
        THEN [limiter |-> [r EXCEPT !.tokens = r.tokens - TokenUnit],
              does |-> "granted", ms |-> 0]
      ELSE IF deadline = Null
        THEN [limiter |-> r, does |-> "sleep",
              ms |-> ((TokenUnit - r.tokens) * 1000)
                       \div (Max2(1, c.requestsPerSecond) * TokenUnit)]
      ELSE IF deadline - t <= 0
        THEN [limiter |-> r, does |-> "timeout", ms |-> 0]
      ELSE [limiter |-> r, does |-> "sleep",
            ms |-> Min2(((TokenUnit - r.tokens) * 1000)
                          \div (Max2(1, c.requestsPerSecond) * TokenUnit),
                        deadline - t)]

\* acquireIteration, granting without tokens -= 1
acquireIteration_noDecrement(l, c, t, deadline) ==
  LET r == refill(l, c, t)
      remaining == deadline - t
      sleepMs == IF c.requestsPerSecond = 0 THEN remaining
                 ELSE Min2(((TokenUnit - r.tokens) * 1000)
                             \div (c.requestsPerSecond * TokenUnit) , remaining)
      foreverMs == IF c.requestsPerSecond = 0 THEN 1
                   ELSE ((TokenUnit - r.tokens) * 1000)
                          \div (c.requestsPerSecond * TokenUnit)
  IN  IF r.tokens >= TokenUnit
        THEN [limiter |-> r, does |-> "granted", ms |-> 0]
      ELSE IF deadline = Null
        THEN [limiter |-> r, does |-> "sleep", ms |-> foreverMs]
      ELSE IF remaining <= 0
        THEN [limiter |-> r, does |-> "timeout", ms |-> 0]
      ELSE [limiter |-> r, does |-> "sleep", ms |-> sleepMs]

\* One iteration of acquire()'s while(true) loop, entered at time t with the
\* given deadline.  Result: the limiter afterwards and what the iteration did:
\* "granted" (return true), "timeout" (return false) or "sleep" for ms.
\* deadline is Null when acquire was called without a timeout.
acquireIteration(l, c, t, deadline) ==
  LET r == refill(l, c, t)
      remaining == deadline - t
      \* waitTime = ((1 - tokens) / requestsPerSecond) * 1000; Infinity at rate 0
      sleepMs == IF c.requestsPerSecond = 0 THEN remaining
                 ELSE Min2(((TokenUnit - r.tokens) * 1000)
                             \div (c.requestsPerSecond * TokenUnit) , remaining)
      \* sleep(waitTime) without a deadline; setTimeout(Infinity) fires after 1 ms
      foreverMs == IF c.requestsPerSecond = 0 THEN 1
                   ELSE ((TokenUnit - r.tokens) * 1000)
                          \div (c.requestsPerSecond * TokenUnit)
  IN  IF r.tokens >= TokenUnit
        THEN [limiter |-> [r EXCEPT !.tokens = r.tokens - TokenUnit],
              does |-> "granted", ms |-> 0]
      ELSE IF deadline = Null
        THEN [limiter |-> r, does |-> "sleep", ms |-> foreverMs]
      ELSE IF remaining <= 0
        THEN [limiter |-> r, does |-> "timeout", ms |-> 0]
      ELSE [limiter |-> r, does |-> "sleep", ms |-> sleepMs]

\* tryAcquire, granting whenever any fraction of a token is there
tryAcquire_takesFractions(l, c, t) ==
  IF ~c.enabled THEN [limiter |-> l, ret |-> TRUE]
  ELSE LET r == refill(l, c, t)
       IN  IF r.tokens > 0
             THEN [limiter |-> [r EXCEPT !.tokens = Max2(0, r.tokens - TokenUnit)],
                   ret |-> TRUE]
             ELSE [limiter |-> r, ret |-> FALSE]

\* tryAcquire, without tokens -= 1
tryAcquire_noDecrement(l, c, t) ==
  IF ~c.enabled THEN [limiter |-> l, ret |-> TRUE]
  ELSE LET r == refill(l, c, t)
       IN  [limiter |-> r, ret |-> r.tokens >= TokenUnit]

\* tryAcquire, without the enabled test
tryAcquire_ignoresEnabled(l, c, t) ==
  LET r == refill(l, c, t)
  IN  IF r.tokens >= TokenUnit
        THEN [limiter |-> [r EXCEPT !.tokens = r.tokens - TokenUnit], ret |-> TRUE]
        ELSE [limiter |-> r, ret |-> FALSE]

\* tryAcquire(): the limiter afterwards and the value returned
tryAcquire(l, c, t) ==
  IF ~c.enabled THEN [limiter |-> l, ret |-> TRUE]
  ELSE LET r == refill(l, c, t)
       IN  IF r.tokens >= TokenUnit
             THEN [limiter |-> [r EXCEPT !.tokens = r.tokens - TokenUnit], ret |-> TRUE]
             ELSE [limiter |-> r, ret |-> FALSE]

\* get availableTokens: the limiter afterwards and the value returned
availableTokens(l, c, t) ==
  LET r == refill(l, c, t)
  IN  [limiter |-> r, ret |-> r.tokens]

\* =========================================================================
\* Retry utilities
\* =========================================================================

\* Math.random(), in thousandths: samples of [0, 1)
RandomSamples == {0, 500, 999}

\* calculateBackoff, the exponential delay not capped at maxDelayMs
calculateBackoff_uncapped(attempt, rc, rnd) ==
  LET delay == rc.baseDelayMs * Pow(rc.exponentialBase, attempt)
      jitterRange == (delay * rc.jitterPct) \div 100
  IN  IF rc.jitterPct > 0
        THEN Max2(0, delay + (rnd * 2 * jitterRange) \div 1000 - jitterRange)
        ELSE Max2(0, delay)

\* calculateBackoff(attempt, config), rnd the value Math.random() returned.
\* config.jitter is kept in percent.
calculateBackoff(attempt, rc, rnd) ==
  LET delay == Min2(rc.baseDelayMs * Pow(rc.exponentialBase, attempt), rc.maxDelayMs)
      jitterRange == (delay * rc.jitterPct) \div 100
  IN  IF rc.jitterPct > 0
        THEN Max2(0, delay + (rnd * 2 * jitterRange) \div 1000 - jitterRange)
        ELSE Max2(0, delay)

\* error.message.includes('fetch' | 'network' | 'ECONNREFUSED' | 'ETIMEDOUT')
NetworkMessages == {"fetch failed", "network error", "connect ECONNREFUSED",
                    "connect ETIMEDOUT"}

\* isRetryableError, looking at the status code before the message
isRetryableError_statusFirst(error, rc) ==
  IF error.isError
    THEN IF error.statusCode # Null
           THEN error.statusCode \in rc.retryableStatusCodes
         ELSE error.message \in NetworkMessages
    ELSE FALSE

\* isRetryableError(error, config)
isRetryableError(error, rc) ==
  IF error.isError
    THEN IF error.message \in NetworkMessages THEN TRUE
         ELSE IF error.statusCode # Null
                THEN error.statusCode \in rc.retryableStatusCodes
              ELSE FALSE
    ELSE FALSE

\* =========================================================================
\* CircuitBreaker
\* =========================================================================

NewCircuitBreaker ==
  [state |-> "closed", failureCount |-> 0, successCount |-> 0,
   lastFailureTime |-> Null]

\* checkStateTransition, moving only after more than timeoutMs
checkStateTransition_strict(b, c, t) ==
  IF b.state = "open" /\ b.lastFailureTime # Null
     /\ t - b.lastFailureTime > c.timeoutMs
    THEN [b EXCEPT !.state = "half_open", !.successCount = 0]
    ELSE b

\* checkStateTransition, leaving successCount as it was
checkStateTransition_keepsSuccesses(b, c, t) ==
  IF b.state = "open" /\ b.lastFailureTime # Null
     /\ t - b.lastFailureTime >= c.timeoutMs
    THEN [b EXCEPT !.state = "half_open"]
    ELSE b

\* checkStateTransition(): the lazy open -> half_open move
checkStateTransition(b, c, t) ==
  IF b.state = "open" /\ b.lastFailureTime # Null
     /\ t - b.lastFailureTime >= c.timeoutMs
    THEN [b EXCEPT !.state = "half_open", !.successCount = 0]
    ELSE b

\* recordSuccess, leaving failureCount as it was while closed
recordSuccess_keepsFailures(b, c) ==
  IF ~c.enabled THEN b
  ELSE IF b.state = "half_open"
    THEN IF b.successCount + 1 >= c.successThreshold
           THEN [b EXCEPT !.successCount = b.successCount + 1,
                          !.state = "closed", !.failureCount = 0]
           ELSE [b EXCEPT !.successCount = b.successCount + 1]
  ELSE b

\* recordSuccess, closing without failureCount = 0
recordSuccess_closesWithFailures(b, c) ==
  IF ~c.enabled THEN b
  ELSE IF b.state = "half_open"
    THEN IF b.successCount + 1 >= c.successThreshold
           THEN [b EXCEPT !.successCount = b.successCount + 1, !.state = "closed"]
           ELSE [b EXCEPT !.successCount = b.successCount + 1]
  ELSE IF b.state = "closed"
    THEN [b EXCEPT !.failureCount = 0]
  ELSE b

\* recordSuccess()
recordSuccess(b, c) ==
  IF ~c.enabled THEN b
  ELSE IF b.state = "half_open"
    THEN IF b.successCount + 1 >= c.successThreshold
           THEN [b EXCEPT !.successCount = b.successCount + 1,
                          !.state = "closed", !.failureCount = 0]
           ELSE [b EXCEPT !.successCount = b.successCount + 1]
  ELSE IF b.state = "closed"
    THEN [b EXCEPT !.failureCount = 0]
  ELSE b

\* recordFailure, setting lastFailureTime only when it opens a closed breaker
recordFailure_staleTime(b, c, t) ==
  IF ~c.enabled THEN b
  ELSE LET f == [b EXCEPT !.failureCount = b.failureCount + 1,
                          !.lastFailureTime = IF b.state = "closed" THEN t
                                              ELSE b.lastFailureTime]
       IN  IF f.state = "half_open"
             THEN [f EXCEPT !.state = "open"]
           ELSE IF f.state = "closed" /\ f.failureCount >= c.failureThreshold
             THEN [f EXCEPT !.state = "open"]
           ELSE f

\* recordFailure, without the enabled test
recordFailure_ignoresEnabled(b, c, t) ==
  LET f == [b EXCEPT !.failureCount = b.failureCount + 1,
                     !.lastFailureTime = t]
  IN  IF f.state = "half_open"
        THEN [f EXCEPT !.state = "open"]
      ELSE IF f.state = "closed" /\ f.failureCount >= c.failureThreshold
        THEN [f EXCEPT !.state = "open"]
      ELSE f

\* recordFailure()
recordFailure(b, c, t) ==
  IF ~c.enabled THEN b
  ELSE LET f == [b EXCEPT !.failureCount = b.failureCount + 1,
                          !.lastFailureTime = t]
       IN  IF f.state = "half_open"
             THEN [f EXCEPT !.state = "open"]
           ELSE IF f.state = "closed" /\ f.failureCount >= c.failureThreshold
             THEN [f EXCEPT !.state = "open"]
           ELSE f

\* allowRequest, letting requests through only when closed
allowRequest_closedOnly(b, c, t) ==
  IF ~c.enabled THEN [breaker |-> b, ret |-> TRUE]
  ELSE LET n == checkStateTransition(b, c, t)
       IN  [breaker |-> n, ret |-> n.state = "closed"]

\* allowRequest(): the breaker afterwards and the value returned
allowRequest(b, c, t) ==
  IF ~c.enabled THEN [breaker |-> b, ret |-> TRUE]
  ELSE LET n == checkStateTransition(b, c, t)
       IN  [breaker |-> n, ret |-> n.state \in {"closed", "half_open"}]

\* getState, telling the state the breaker would move to without moving it
getState_peeks(b, c, t) ==
  [breaker |-> b, ret |-> checkStateTransition(b, c, t).state]

\* getState(): the breaker afterwards and the value returned
getState(b, c, t) ==
  LET n == checkStateTransition(b, c, t)
  IN  [breaker |-> n, ret |-> n.state]

\* getTimeUntilRetry, without Math.max(0, ...)
getTimeUntilRetry_noClamp(b, c, t) ==
  IF b.state # "open" \/ b.lastFailureTime = Null THEN 0
  ELSE c.timeoutMs - (t - b.lastFailureTime)

\* getTimeUntilRetry()
getTimeUntilRetry(b, c, t) ==
  IF b.state # "open" \/ b.lastFailureTime = Null THEN 0
  ELSE Max2(0, c.timeoutMs - (t - b.lastFailureTime))

\* reset, without lastFailureTime = null
reset_keepsLastFailureTime(b) ==
  [state |-> "closed", failureCount |-> 0, successCount |-> 0,
   lastFailureTime |-> b.lastFailureTime]

\* reset()
reset(b) ==
  [state |-> "closed", failureCount |-> 0, successCount |-> 0,
   lastFailureTime |-> Null]

\* =========================================================================
\* MetricsCollector
\* =========================================================================

NewMetricsCollector ==
  [metrics |-> <<>>, totalRequests |-> 0, totalSuccesses |-> 0,
   totalFailures |-> 0]

RECURSIVE shiftToWindow(_, _)
\* while (metrics.length > windowSize) metrics.shift()
shiftToWindow(s, windowSize) ==
  IF Len(s) > windowSize /\ Len(s) > 0
    THEN shiftToWindow(Tail(s), windowSize)
    ELSE s

\* record, dropping the newest record when the window is full
record_evictsNewest(m, rec, windowSize) ==
  [metrics        |-> IF Len(m.metrics) >= windowSize THEN m.metrics
                      ELSE Append(m.metrics, rec),
   totalRequests  |-> m.totalRequests + 1,
   totalSuccesses |-> IF rec.success THEN m.totalSuccesses + 1 ELSE m.totalSuccesses,
   totalFailures  |-> IF rec.success THEN m.totalFailures ELSE m.totalFailures + 1]

\* record(metrics)
record(m, rec, windowSize) ==
  [metrics        |-> shiftToWindow(Append(m.metrics, rec), windowSize),
   totalRequests  |-> m.totalRequests + 1,
   totalSuccesses |-> IF rec.success THEN m.totalSuccesses + 1 ELSE m.totalSuccesses,
   totalFailures  |-> IF rec.success THEN m.totalFailures ELSE m.totalFailures + 1]

\* MetricsCollector.reset()
resetCollector(m) ==
  [metrics |-> <<>>, totalRequests |-> 0, totalSuccesses |-> 0,
   totalFailures |-> 0]

\* latencies = metrics.map(m => m.durationMs).sort((a, b) => a - b)
sortedLatencies(m) ==
  SortSeq([i \in 1..Len(m.metrics) |-> m.metrics[i].durationMs],
          LAMBDA a, b : a < b)

\* successRate, over the lifetime counters
successRate_lifetime(m) ==
  (m.totalSuccesses * 100 * Milli) \div m.totalRequests

\* (successes / metrics.length) * 100, in thousandths of a percent
successRate(m) ==
  (Cardinality({i \in 1..Len(m.metrics) : m.metrics[i].success}) * 100 * Milli)
     \div Len(m.metrics)

\* percentileIndex, rounding up
percentileIndex_roundsUp(n, pct) == (n * pct + 99) \div 100

\* Math.floor(latencies.length * p), p = pct / 100
percentileIndex(n, pct) == (n * pct) \div 100

\* latencies[i] of the code: index from 0, undefined past the end
at(latencies, i) ==
  IF i < Len(latencies) THEN latencies[i + 1] ELSE Null

RECURSIVE sumOf(_)
\* latencies.reduce((a, b) => a + b, 0)
sumOf(s) == IF s = <<>> THEN 0 ELSE Head(s) + sumOf(Tail(s))

\* the summary of an empty window
EmptySummary ==
  [windowSize |-> 0, totalRequests |-> 0, totalSuccesses |-> 0,
   totalFailures |-> 0, successRate |-> 0, avgLatencyMs |-> 0,
   minLatencyMs |-> 0, maxLatencyMs |-> 0, p50LatencyMs |-> 0,
   p95LatencyMs |-> 0, p99LatencyMs |-> 0, requestsByEndpoint |-> <<>>,
   errorsByType |-> <<>>]

\* getSummary()
getSummary(m) ==
  IF Len(m.metrics) = 0 THEN EmptySummary
  ELSE LET latencies == sortedLatencies(m)
           n == Len(latencies)
           ix == 1..Len(m.metrics)
           byEndpoint ==
             [k \in {m.metrics[i].endpoint : i \in ix} |->
                Cardinality({i \in ix : m.metrics[i].endpoint = k})]
           errors ==
             [k \in {m.metrics[i].error : i \in ix} \ {"none"} |->
                Cardinality({i \in ix : m.metrics[i].error = k})]
       IN  [windowSize     |-> Len(m.metrics),
            totalRequests  |-> m.totalRequests,
            totalSuccesses |-> m.totalSuccesses,
            totalFailures  |-> m.totalFailures,
            successRate    |-> successRate(m),
            avgLatencyMs   |-> (sumOf(latencies) * Milli) \div n,
            minLatencyMs   |-> at(latencies, 0),
            maxLatencyMs   |-> at(latencies, n - 1),
            p50LatencyMs   |-> at(latencies, percentileIndex(n, 50)),
            p95LatencyMs   |-> at(latencies, percentileIndex(n, 95)),
            p99LatencyMs   |-> at(latencies, percentileIndex(n, 99)),
            requestsByEndpoint |-> byEndpoint,
            errorsByType       |-> errors]

\* =========================================================================
\* Configurations
\* =========================================================================

\* What fn can do when it settles: resolve, or reject with one of these.
\* isError: instanceof Error; a rejection with undefined carries no fields.
ServerError  == [isError |-> TRUE, name |-> "Error", message |-> "Server error",
                 statusCode |-> 500]
NotFound     == [isError |-> TRUE, name |-> "Error", message |-> "Not found",
                 statusCode |-> 404]
NetworkError == [isError |-> TRUE, name |-> "Error", message |-> "network error",
                 statusCode |-> Null]
Undefined    == [isError |-> FALSE, name |-> "undefined", message |-> "undefined",
                 statusCode |-> Null]
FnErrors == {ServerError, NotFound, Undefined}
Nullish(e) == e = Undefined

DefaultRetryableStatusCodes == {429, 500, 502, 503, 504}

\* createDisabledResilienceConfig()
DisabledConfig ==
  [rateLimiter |-> [enabled |-> FALSE, requestsPerSecond |-> 100, burstSize |-> 200],
   retry |-> [enabled |-> FALSE, maxRetries |-> 3, baseDelayMs |-> 100,
              maxDelayMs |-> 10000, exponentialBase |-> 2, jitterPct |-> 10,
              retryableStatusCodes |-> DefaultRetryableStatusCodes],
   circuitBreaker |-> [enabled |-> FALSE, failureThreshold |-> 5,
                       successThreshold |-> 2, timeoutMs |-> 30000],
   collectMetrics |-> FALSE]

\* the configuration of the test 'should retry on retryable errors', with the
\* breaker on
RetryingConfig ==
  [rateLimiter |-> [enabled |-> TRUE, requestsPerSecond |-> 1000, burstSize |-> 1000],
   retry |-> [enabled |-> TRUE, maxRetries |-> MaxRetries, baseDelayMs |-> 10,
              maxDelayMs |-> 100, exponentialBase |-> 2, jitterPct |-> 0,
              retryableStatusCodes |-> {500}],
   circuitBreaker |-> [enabled |-> TRUE, failureThreshold |-> 2,
                       successThreshold |-> 2, timeoutMs |-> 30000],
   collectMetrics |-> TRUE]

\* the configuration of the test 'should throw CircuitBreakerOpenError when
\* circuit is open'
TrippingConfig ==
  [rateLimiter |-> [enabled |-> TRUE, requestsPerSecond |-> 1000, burstSize |-> 1000],
   retry |-> [enabled |-> FALSE, maxRetries |-> 0, baseDelayMs |-> 10,
              maxDelayMs |-> 100, exponentialBase |-> 2, jitterPct |-> 0,
              retryableStatusCodes |-> {}],
   circuitBreaker |-> [enabled |-> TRUE, failureThreshold |-> 1,
                       successThreshold |-> 2, timeoutMs |-> 30000],
   collectMetrics |-> FALSE]

\* a limiter that never refills and a breaker that one failure opens, with
\* jittered backoff
StarvedConfig ==
  [rateLimiter |-> [enabled |-> TRUE, requestsPerSecond |-> 0, burstSize |-> 1],
   retry |-> [enabled |-> TRUE, maxRetries |-> MaxRetries, baseDelayMs |-> 100,
              maxDelayMs |-> 10000, exponentialBase |-> 2, jitterPct |-> 10,
              retryableStatusCodes |-> DefaultRetryableStatusCodes],
   circuitBreaker |-> [enabled |-> TRUE, failureThreshold |-> 1,
                       successThreshold |-> 1, timeoutMs |-> 30000],
   collectMetrics |-> TRUE]

ResilienceConfigs == {DisabledConfig, RetryingConfig, TrippingConfig, StarvedConfig}

\* =========================================================================
\* State
\* =========================================================================

VARIABLES
  now,        \* Date.now()
  config,     \* ResilienceManager.config
  limiter,    \* RateLimiter: tokens, lastRefill
  breaker,    \* CircuitBreaker: state, failureCount, successCount, lastFailureTime
  collector,  \* MetricsCollector: metrics, totalRequests, totalSuccesses, totalFailures
  calls,      \* the execute calls: position, locals and what each has done
  probe       \* the last direct call on a component and what it returned

vars == <<now, config, limiter, breaker, collector, calls, probe>>

Calls == 1..NumCalls

NoError == [isError |-> FALSE, name |-> "none", message |-> "none", statusCode |-> Null]

\* fn resolved (an entry of fnLog)
Resolved == [isError |-> FALSE, name |-> "resolved", message |-> "none", statusCode |-> Null]

\* What execute did: kind is "pending", "returned" or "threw"; attempt is the
\* attempt whose result or error object execute passed on (Null when the error
\* was created by the resilience layer itself).
NoOutcome == [kind |-> "pending", error |-> NoError, attempt |-> Null,
              circuitName |-> "none", timeUntilRetryMs |-> Null]

NoSleep == [attempt |-> Null, delay |-> Null, at |-> Null]

\* An execute call.  pc is its position; startTime, deadline, wakeAt, attempt,
\* retryCount and lastError are its locals and timer.  The rest records what it
\* has done: fnCalls the invocations of fn, fnLog how each one settled (Resolved
\* or the error it rejected with), invokedAt the time of the latest invocation,
\* slept the latest backoff sleep, cbCalls the record calls it made on the
\* breaker, tokensTaken the tokens it consumed.
NewCall ==
  [pc |-> "idle", startTime |-> Null, deadline |-> Null, wakeAt |-> Null,
   attempt |-> 0, retryCount |-> 0, lastError |-> NoError,
   fnCalls |-> 0, fnLog |-> <<>>, invokedAt |-> Null, slept |-> NoSleep,
   cbCalls |-> <<>>,
   tokensTaken |-> 0, outcome |-> NoOutcome]

\* probe: op the last method called directly on the breaker, ret what it
\* returned (ms when it returned a number), pre the state field the call found,
\* n a bit flipped by every call; failuresSince the recordFailure
\* calls since the last recordSuccess, reset or construction; successesInPeriod
\* the recordSuccess calls made in half_open since the breaker last got there.
NoProbe == [op |-> "none", ret |-> "none", ms |-> Null, pre |-> "none", n |-> 0,
            failuresSince |-> 0, successesInPeriod |-> 0]

Init ==
  /\ now = 0
  /\ config \in ResilienceConfigs
  /\ limiter = NewRateLimiter(config.rateLimiter, 0)
  /\ breaker = NewCircuitBreaker
  /\ collector = NewMetricsCollector
  /\ calls = [p \in Calls |-> NewCall]
  /\ probe = NoProbe

\* =========================================================================
\* ResilienceManager.execute
\* =========================================================================

\* Errors the resilience layer creates itself
RateLimiterTimeout == [isError |-> TRUE, name |-> "Error",
                       message |-> "Rate limiter timeout", statusCode |-> Null]
CircuitBreakerOpenError == [isError |-> TRUE, name |-> "CircuitBreakerOpenError",
                            message |-> "Circuit is open", statusCode |-> Null]
RetryExhaustedError == [isError |-> TRUE, name |-> "RetryExhaustedError",
                        message |-> "Retry exhausted", statusCode |-> Null]
UnexpectedPath == [isError |-> TRUE, name |-> "Error",
                   message |-> "Unexpected execution path", statusCode |-> Null]
\* reading .statusCode of undefined
TypeError == [isError |-> TRUE, name |-> "TypeError",
              message |-> "Cannot read properties of undefined", statusCode |-> Null]

Threw(e, a) == [kind |-> "threw", error |-> e, attempt |-> a,
                circuitName |-> "none", timeUntilRetryMs |-> Null]
Returned(a) == [kind |-> "returned", error |-> NoError, attempt |-> a,
                circuitName |-> "none", timeUntilRetryMs |-> Null]

\* execute is over: its locals and timer are gone
Finish(c, o) ==
  [c EXCEPT !.pc = "done", !.outcome = o, !.startTime = Null, !.deadline = Null,
            !.wakeAt = Null, !.invokedAt = Null, !.slept = NoSleep]

\* lastError = error instanceof Error ? error : new Error(String(error))
toLastError(e) ==
  IF e.isError THEN e
  ELSE [isError |-> TRUE, name |-> "Error", message |-> e.message, statusCode |-> Null]

\* shouldRetry, with attempt <= maxRetries
shouldRetry_offByOne(e, attempt, rc) ==
  rc.enabled /\ isRetryableError(e, rc) /\ attempt <= rc.maxRetries

\* isRetryable && attempt < maxRetries
shouldRetry(e, attempt, rc) ==
  rc.enabled /\ isRetryableError(e, rc) /\ attempt < rc.maxRetries

\* the RequestMetrics of a success; the endpoint names the call
successMetrics(p, c, t) ==
  [method |-> "POST", endpoint |-> p, statusCode |-> SuccessStatusCode,
   durationMs |-> t - c.startTime, success |-> TRUE, timestamp |-> t,
   error |-> "none", retryCount |-> c.retryCount]

\* the RequestMetrics of a failure
failureMetrics(p, c, e, t) ==
  [method |-> "POST", endpoint |-> p, statusCode |-> e.statusCode,
   durationMs |-> t - c.startTime, success |-> FALSE, timestamp |-> t,
   error |-> toLastError(e).name, retryCount |-> c.retryCount]

\* scheduleRetry, without retryCount += 1
scheduleRetry_keepsCount(c, delay, t) ==
  [c EXCEPT !.pc = "backoff", !.wakeAt = t + delay,
            !.slept = [attempt |-> c.attempt, delay |-> delay, at |-> t]]

\* retryCount += 1; delay = calculateBackoff(...); await sleep(delay); continue
scheduleRetry(c, delay, t) ==
  [c EXCEPT !.pc = "backoff", !.retryCount = c.retryCount + 1,
            !.wakeAt = t + delay,
            !.slept = [attempt |-> c.attempt, delay |-> delay, at |-> t]]

\* for (attempt ...; attempt <= maxRetries; ...) { await fn() ... }: the loop
\* test, then the call of fn, or the fall through to the code after the loop
enterAttempt(c, a, rc, t) ==
  IF a <= rc.maxRetries
    THEN [c EXCEPT !.pc = "awaitFn", !.attempt = a, !.fnCalls = c.fnCalls + 1,
                   !.invokedAt = t]
    ELSE Finish([c EXCEPT !.attempt = a],
                IF c.lastError # NoError THEN Threw(RetryExhaustedError, Null)
                                         ELSE Threw(UnexpectedPath, Null))

\* acquire(): one pass of its loop for call p, whose locals are c
AcquireStep(p, c) ==
  LET r == acquireIteration(limiter, config.rateLimiter, now, c.deadline)
  IN  /\ limiter' = r.limiter
      /\ calls' = [calls EXCEPT ![p] =
           IF r.does = "granted"
             THEN [c EXCEPT !.pc = "acquired", !.tokensTaken = c.tokensTaken + 1]
           ELSE IF r.does = "timeout"
             THEN Finish(c, Threw(RateLimiterTimeout, Null))
           ELSE [c EXCEPT !.pc = "acquireSleep", !.wakeAt = now + r.ms]]

\* execute() up to its first await: startTime, then acquire(30000)
Start(p) ==
  /\ calls[p].pc = "idle"
  /\ \A q \in Calls : q < p => calls[q].pc # "idle"
  /\ LET c == [calls[p] EXCEPT !.startTime = now]
     IN  IF ~config.rateLimiter.enabled
           THEN /\ calls' = [calls EXCEPT ![p] = [c EXCEPT !.pc = "acquired"]]
                /\ UNCHANGED limiter
           ELSE AcquireStep(p, [c EXCEPT !.deadline = now + AcquireTimeoutMs])
  /\ UNCHANGED <<now, config, breaker, collector, probe>>

\* acquire(): the sleep is over, the loop goes round
AcquireWake(p) ==
  /\ calls[p].pc = "acquireSleep"
  /\ now >= calls[p].wakeAt
  /\ AcquireStep(p, calls[p])
  /\ UNCHANGED <<now, config, breaker, collector, probe>>

\* execute() after acquire returned true: the breaker check, then attempt 0
Admit(p) ==
  /\ calls[p].pc = "acquired"
  /\ LET a == allowRequest(breaker, config.circuitBreaker, now)
         c == calls[p]
     IN  /\ breaker' = a.breaker
         /\ calls' = [calls EXCEPT ![p] =
              IF ~a.ret
                THEN Finish(c, [kind |-> "threw", error |-> CircuitBreakerOpenError,
                                attempt |-> Null, circuitName |-> CircuitName,
                                timeUntilRetryMs |->
                                  getTimeUntilRetry(a.breaker, config.circuitBreaker, now)])
                ELSE enterAttempt(c, 0, config.retry, now)]
  /\ UNCHANGED <<now, config, limiter, collector, probe>>

\* fn() resolved
FnResolves(p) ==
  /\ calls[p].pc = "awaitFn"
  /\ LET c == calls[p]
         b == recordSuccess(breaker, config.circuitBreaker)
     IN  /\ breaker' = b
         /\ collector' = IF config.collectMetrics
                           THEN record(collector, successMetrics(p, c, now), DefaultWindowSize)
                           ELSE collector
         /\ calls' = [calls EXCEPT ![p] =
              Finish([c EXCEPT !.fnLog = Append(c.fnLog, Resolved),
                               !.cbCalls = Append(c.cbCalls, [op |-> "recordSuccess",
                                           pre |-> breaker.state, post |-> b.state])],
                     Returned(c.attempt))]
  /\ UNCHANGED <<now, config, limiter, probe>>

\* fn() rejected with e; rnd is what Math.random() returns in calculateBackoff
FnRejects(p, e, rnd) ==
  /\ calls[p].pc = "awaitFn"
  /\ LET c == [calls[p] EXCEPT !.lastError = toLastError(e),
                                !.fnLog = Append(calls[p].fnLog, e)]
         b == recordFailure(breaker, config.circuitBreaker, now)
     IN  IF shouldRetry(e, c.attempt, config.retry)
           THEN LET delay == calculateBackoff(c.attempt, config.retry, rnd)
                IN  /\ calls' = [calls EXCEPT ![p] = scheduleRetry(c, delay, now)]
                    /\ UNCHANGED <<breaker, collector>>
           ELSE /\ breaker' = b
                \* (error as { statusCode }).statusCode throws on undefined
                /\ collector' = IF config.collectMetrics /\ ~Nullish(e)
                                  THEN record(collector, failureMetrics(p, c, e, now),
                                              DefaultWindowSize)
                                  ELSE collector
                /\ calls' = [calls EXCEPT ![p] =
                     Finish([c EXCEPT !.cbCalls = Append(c.cbCalls, [op |-> "recordFailure",
                                            pre |-> breaker.state, post |-> b.state])],
                            IF config.collectMetrics /\ Nullish(e)
                              THEN Threw(TypeError, Null)
                              ELSE Threw(e, c.attempt))]
  /\ UNCHANGED <<now, config, limiter, probe>>

\* the backoff sleep is over: continue, attempt++
BackoffWake(p) ==
  /\ calls[p].pc = "backoff"
  /\ now >= calls[p].wakeAt
  /\ calls' = [calls EXCEPT ![p] =
       enterAttempt(calls[p], calls[p].attempt + 1, config.retry, now)]
  /\ UNCHANGED <<now, config, limiter, breaker, collector, probe>>

\* the clock advances (while some call is still to run or running)
Tick ==
  /\ \E p \in Calls : calls[p].pc # "done"
  /\ now < MaxTicks * ClockStep
  /\ now' = now + ClockStep
  /\ UNCHANGED <<config, limiter, breaker, collector, calls, probe>>

JitterSamples == IF config.retry.jitterPct > 0 THEN RandomSamples ELSE {0}

Next ==
  \/ \E p \in Calls : Start(p)
  \/ \E p \in Calls : AcquireWake(p)
  \/ \E p \in Calls : Admit(p)
  \/ \E p \in Calls : FnResolves(p)
  \/ \E p \in Calls, e \in FnErrors, rnd \in JitterSamples : FnRejects(p, e, rnd)
  \/ \E p \in Calls : BackoffWake(p)
  \/ Tick

Spec == Init /\ [][Next]_vars

\* the clock goes on advancing past MaxTicks * ClockStep while a sleeping
\* call has a timer that is still to fire
TimerTick ==
  /\ now >= MaxTicks * ClockStep
  /\ \E p \in Calls : /\ calls[p].pc \in {"acquireSleep", "backoff"}
                       /\ calls[p].wakeAt > now
  /\ now' = now + ClockStep
  /\ UNCHANGED <<config, limiter, breaker, collector, calls, probe>>

\* execute when time advances, timers that are due fire, continuations run
\* and every invocation of fn settles
SpecLive ==
  /\ Init
  /\ [][Next \/ TimerTick]_vars
  /\ WF_vars(Tick \/ TimerTick)
  /\ \A p \in Calls :
       /\ WF_vars(AcquireWake(p))
       /\ WF_vars(Admit(p))
       /\ WF_vars(BackoffWake(p))
       /\ WF_vars(FnResolves(p) \/
                  \E e \in FnErrors, rnd \in JitterSamples : FnRejects(p, e, rnd))

\* =========================================================================
\* The breaker on its own: its methods called directly, in any order
\* =========================================================================

BreakerConfigs ==
  { [TrippingConfig EXCEPT !.circuitBreaker =
       [enabled |-> e, failureThreshold |-> f, successThreshold |-> g, timeoutMs |-> t]] :
      e \in BOOLEAN, f \in 1..MaxThreshold, g \in 1..MaxThreshold, t \in {30000, 45000} }

InitCB ==
  /\ now = 0
  /\ config \in BreakerConfigs
  /\ limiter = NewRateLimiter(config.rateLimiter, 0)
  /\ breaker = NewCircuitBreaker
  /\ collector = NewMetricsCollector
  /\ calls = [p \in Calls |-> NewCall]
  /\ probe = NoProbe

\* the probe after a direct call of op that returned ret and left the breaker b
Probed(op, ret, b) ==
  [op |-> op, ret |-> ret, ms |-> Null, pre |-> breaker.state, n |-> 1 - probe.n,
   failuresSince |-> IF op = "recordFailure" THEN probe.failuresSince + 1
                     ELSE IF op \in {"recordSuccess", "reset"} THEN 0
                     ELSE probe.failuresSince,
   successesInPeriod |-> IF b.state # "half_open" \/ breaker.state # "half_open" THEN 0
                         ELSE IF op = "recordSuccess" THEN probe.successesInPeriod + 1
                         ELSE probe.successesInPeriod]

CBRecordSuccess ==
  /\ breaker' = recordSuccess(breaker, config.circuitBreaker)
  /\ probe' = Probed("recordSuccess", "void", breaker')
  /\ UNCHANGED <<now, config, limiter, collector, calls>>

CBRecordFailure ==
  /\ breaker.failureCount < MaxFailureCount
  /\ probe.failuresSince < MaxFailureCount
  /\ breaker' = recordFailure(breaker, config.circuitBreaker, now)
  /\ probe' = Probed("recordFailure", "void", breaker')
  /\ UNCHANGED <<now, config, limiter, collector, calls>>

CBGetState ==
  /\ LET r == getState(breaker, config.circuitBreaker, now)
     IN  /\ breaker' = r.breaker
         /\ probe' = Probed("getState", r.ret, r.breaker)
  /\ UNCHANGED <<now, config, limiter, collector, calls>>

CBAllowRequest ==
  /\ LET r == allowRequest(breaker, config.circuitBreaker, now)
     IN  /\ breaker' = r.breaker
         /\ probe' = Probed("allowRequest", IF r.ret THEN "true" ELSE "false", r.breaker)
  /\ UNCHANGED <<now, config, limiter, collector, calls>>

CBReset ==
  /\ breaker' = reset(breaker)
  /\ probe' = Probed("reset", "void", breaker')
  /\ UNCHANGED <<now, config, limiter, collector, calls>>

CBGetTimeUntilRetry ==
  /\ probe' = [Probed("getTimeUntilRetry", "number", breaker) EXCEPT
                 !.ms = getTimeUntilRetry(breaker, config.circuitBreaker, now)]
  /\ UNCHANGED <<now, config, limiter, breaker, collector, calls>>

NextCB ==
  \/ CBRecordSuccess
  \/ CBRecordFailure
  \/ CBGetState
  \/ CBAllowRequest
  \/ CBReset
  \/ CBGetTimeUntilRetry
  \/ Tick

SpecCB == InitCB /\ [][NextCB]_vars

\* =========================================================================
\* execute calls on a manager whose breaker has just been tripped through its
\* public circuitBreaker field: manager.circuitBreaker.recordFailure(), made
\* failureThreshold (here one) times right after construction
\* =========================================================================

TrippedConfigs == {TrippingConfig, StarvedConfig}

InitTripped ==
  /\ now = 0
  /\ config \in TrippedConfigs
  /\ limiter = NewRateLimiter(config.rateLimiter, 0)
  /\ breaker = recordFailure(NewCircuitBreaker, config.circuitBreaker, 0)
  /\ collector = NewMetricsCollector
  /\ calls = [p \in Calls |-> NewCall]
  /\ probe = NoProbe

SpecTripped == InitTripped /\ [][Next]_vars

\* =========================================================================
\* execute by callers that contend for one token a second, with retries and a
\* breaker that one failure opens
\* =========================================================================

ContendedConfig ==
  [RetryingConfig EXCEPT
     !.rateLimiter = [enabled |-> TRUE, requestsPerSecond |-> 1, burstSize |-> 1],
     !.circuitBreaker.failureThreshold = 1]

InitContended ==
  /\ now = 0
  /\ config = ContendedConfig
  /\ limiter = NewRateLimiter(config.rateLimiter, 0)
  /\ breaker = NewCircuitBreaker
  /\ collector = NewMetricsCollector
  /\ calls = [p \in Calls |-> NewCall]
  /\ probe = NoProbe

SpecContended == InitContended /\ [][Next]_vars

\* =========================================================================
\* execute under retry configurations whose maxRetries is any integer from
\* -1 up
\* =========================================================================

\* RetryConfig.maxRetries is a number: negative values are accepted
RetryCountConfigs ==
  { [StarvedConfig EXCEPT !.retry.maxRetries = m] : m \in -1..MaxRetries }

InitRetryCount ==
  /\ now = 0
  /\ config \in RetryCountConfigs
  /\ limiter = NewRateLimiter(config.rateLimiter, 0)
  /\ breaker = NewCircuitBreaker
  /\ collector = NewMetricsCollector
  /\ calls = [p \in Calls |-> NewCall]
  /\ probe = NoProbe

SpecRetryCount == InitRetryCount /\ [][Next]_vars

\* =========================================================================
\* execute with getHealth and getMetrics called at any moment, from a tripped
\* breaker
\* =========================================================================

\* ResilienceManager.getHealth(): getState, getTimeUntilRetry, the
\* availableTokens getter and getMetrics, in this order. probe keeps the
\* breaker's state before the call (pre) and the circuitBreaker part returned
GetHealth ==
  /\ LET s == getState(breaker, config.circuitBreaker, now)
         a == availableTokens(limiter, config.rateLimiter, now)
     IN  /\ breaker' = s.breaker
         /\ limiter' = a.limiter
         /\ probe' = [probe EXCEPT
                        !.op = "getHealth", !.n = 1 - probe.n, !.ret = s.ret,
                        !.pre = breaker.state,
                        !.ms = getTimeUntilRetry(s.breaker, config.circuitBreaker, now)]
  /\ UNCHANGED <<now, config, collector, calls>>

\* ResilienceManager.getMetrics(): the collector's getSummary, or null
GetMetrics ==
  /\ probe' = [probe EXCEPT !.op = "getMetrics", !.n = 1 - probe.n,
                            !.ret = "none", !.pre = breaker.state, !.ms = Null]
  /\ UNCHANGED <<now, config, limiter, breaker, collector, calls>>

NextHealth == Next \/ GetHealth \/ GetMetrics

SpecHealth == InitTripped /\ [][NextHealth]_vars

\* =========================================================================
\* The limiter on its own: acquire called by several callers at once, with
\* tryAcquire and availableTokens called directly, in any order
\* =========================================================================

\* requestsPerSecond of the limiters tried
Rates == {1, 2}
\* the timeout argument of acquire: a number of milliseconds, or none
AcquireTimeouts == {Null, LimiterStep}
\* tryAcquire calls made: enough to go past a full bucket
MaxTries == MaxBurst + 1

LimiterConfigs ==
  { [TrippingConfig EXCEPT !.rateLimiter =
       [enabled |-> e, requestsPerSecond |-> r, burstSize |-> b]] :
      e \in BOOLEAN, r \in Rates, b \in 1..MaxBurst }

LimiterHorizon == MaxLimiterTicks * LimiterStep

\* probe, for the limiter: op the last method called directly, ret what it
\* returned, n a bit flipped by every direct call, tries
\* the tryAcquire calls made and granted those that returned true; result what each acquire call returned, and
\* whether its deadline had passed by then; hadToken whether the bucket held a
\* whole token at some time when the caller was waiting with its deadline not
\* yet passed.
NoLimiterProbe ==
  [op |-> "none", ret |-> "none", n |-> 0, tries |-> 0, granted |-> 0,
   result |-> [p \in Calls |-> [ret |-> "pending", late |-> FALSE]],
   hadToken |-> [p \in Calls |-> FALSE]]

InitRL ==
  /\ now = 0
  /\ config \in LimiterConfigs
  /\ limiter = NewRateLimiter(config.rateLimiter, 0)
  /\ breaker = NewCircuitBreaker
  /\ collector = NewMetricsCollector
  /\ calls = [p \in Calls |-> NewCall]
  /\ probe = NoLimiterProbe

\* hadToken, once the limiter is l, the callers are cs and the clock has gone
\* from tOld to tNew: between two steps nobody takes a token, so the bucket
\* is fullest at the end of the interval, or at the deadline if that is sooner
Watched(h, cs, l, tOld, tNew) ==
  [p \in Calls |->
     \/ h[p]
     \/ /\ cs[p].pc = "acquireSleep"
        /\ cs[p].deadline # Null
        /\ cs[p].deadline >= tOld
        /\ refill(l, config.rateLimiter, Min2(cs[p].deadline, tNew)).tokens >= TokenUnit]

\* acquire(): call p returns ret
acquireReturns(p, c, ret) ==
  /\ calls' = [calls EXCEPT ![p] =
       [c EXCEPT !.pc = "done", !.wakeAt = Null,
                 !.tokensTaken = IF ret /\ config.rateLimiter.enabled
                                   THEN c.tokensTaken + 1 ELSE c.tokensTaken]]
  /\ probe' = [probe EXCEPT
       !.result[p] = [ret |-> IF ret THEN "true" ELSE "false",
                      late |-> c.deadline # Null /\ now > c.deadline],
       !.hadToken = Watched(probe.hadToken, calls', limiter', now, now)]

\* acquire(): one pass of its loop for call p, whose locals are c
acquirePass(p, c) ==
  LET r == acquireIteration(limiter, config.rateLimiter, now, c.deadline)
  IN  /\ limiter' = r.limiter
      /\ IF r.does = "granted" THEN acquireReturns(p, c, TRUE)
         ELSE IF r.does = "timeout" THEN acquireReturns(p, c, FALSE)
         ELSE /\ calls' = [calls EXCEPT ![p] =
                   [c EXCEPT !.pc = "acquireSleep", !.wakeAt = now + r.ms]]
              /\ probe' = [probe EXCEPT
                   !.hadToken = Watched(probe.hadToken, calls', limiter', now, now)]

\* acquire(timeout) up to its first await or its return
RLAcquire(p, timeout) ==
  /\ calls[p].pc = "idle"
  /\ \A q \in Calls : q < p => calls[q].pc # "idle"
  /\ LET c == [calls[p] EXCEPT !.deadline = IF timeout = Null THEN Null
                                             ELSE now + timeout]
     IN  IF ~config.rateLimiter.enabled
           THEN /\ UNCHANGED limiter
                /\ acquireReturns(p, calls[p], TRUE)
           ELSE acquirePass(p, c)
  /\ UNCHANGED <<now, config, breaker, collector>>

\* acquire(): the sleep is over, the loop goes round
RLAcquireWake(p) ==
  /\ calls[p].pc = "acquireSleep"
  /\ now >= calls[p].wakeAt
  /\ acquirePass(p, calls[p])
  /\ UNCHANGED <<now, config, breaker, collector>>

RLTryAcquire ==
  /\ probe.tries < MaxTries
  /\ LET r == tryAcquire(limiter, config.rateLimiter, now)
     IN  /\ limiter' = r.limiter
         /\ probe' = [probe EXCEPT
              !.op = "tryAcquire", !.ret = IF r.ret THEN "true" ELSE "false",
              !.n = 1 - probe.n, !.tries = probe.tries + 1,
              !.granted = IF r.ret THEN probe.granted + 1 ELSE probe.granted,
              !.hadToken = Watched(probe.hadToken, calls, r.limiter, now, now)]
  /\ UNCHANGED <<now, config, breaker, collector, calls>>

RLAvailableTokens ==
  /\ LET r == availableTokens(limiter, config.rateLimiter, now)
     IN  /\ limiter' = r.limiter
         /\ probe' = [probe EXCEPT
              !.op = "availableTokens", !.ret = "number", !.n = 1 - probe.n,
              !.hadToken = Watched(probe.hadToken, calls, r.limiter, now, now)]
  /\ UNCHANGED <<now, config, breaker, collector, calls>>

\* the clock advances; a timer that is due fires then or later
RLTick ==
  /\ now < LimiterHorizon
  /\ now' = now + LimiterStep
  /\ probe' = [probe EXCEPT
       !.hadToken = Watched(probe.hadToken, calls, limiter, now, now')]
  /\ UNCHANGED <<config, limiter, breaker, collector, calls>>

NextRL ==
  \/ \E p \in Calls, timeout \in AcquireTimeouts : RLAcquire(p, timeout)
  \/ \E p \in Calls : RLAcquireWake(p)
  \/ RLTryAcquire
  \/ RLAvailableTokens
  \/ RLTick

SpecRL == InitRL /\ [][NextRL]_vars

\* =========================================================================
\* The collector on its own: record, getSummary and reset called directly
\* =========================================================================

\* durationMs of the records made
Latencies == {5, 10, 20}

\* new MetricsCollector(windowSize)
CollectorConfigs == { [windowSize |-> w] : w \in 0..MaxWindow }

\* a RequestMetrics
requestMetrics(success, duration, t) ==
  [method |-> "POST", endpoint |-> "/usage",
   statusCode |-> IF success THEN SuccessStatusCode ELSE 500,
   durationMs |-> duration, success |-> success, timestamp |-> t,
   error |-> IF success THEN "none" ELSE "Error", retryCount |-> 0]

\* probe, for the collector: op the last method called, n a bit flipped by
\* every getSummary call, summary what the last call returned if it was
\* getSummary, log all the records made since construction or the last reset
NoSummary == [windowSize |-> Null]
NoCollectorProbe == [op |-> "none", n |-> 0, summary |-> NoSummary, log |-> <<>>]

InitMC ==
  /\ now = 0
  /\ config \in CollectorConfigs
  /\ limiter = NewRateLimiter(TrippingConfig.rateLimiter, 0)
  /\ breaker = NewCircuitBreaker
  /\ collector = NewMetricsCollector
  /\ calls = [p \in Calls |-> NewCall]
  /\ probe = NoCollectorProbe

MCRecord(success, duration) ==
  /\ Len(probe.log) < MaxRecords
  /\ LET rec == requestMetrics(success, duration, now)
     IN  /\ collector' = record(collector, rec, config.windowSize)
         /\ probe' = [probe EXCEPT !.op = "record", !.summary = NoSummary,
                                   !.log = Append(probe.log, rec)]
  /\ UNCHANGED <<now, config, limiter, breaker, calls>>

MCGetSummary ==
  /\ probe' = [probe EXCEPT !.op = "getSummary", !.n = 1 - probe.n,
                            !.summary = getSummary(collector)]
  /\ UNCHANGED <<now, config, limiter, breaker, collector, calls>>

MCReset ==
  /\ collector' = resetCollector(collector)
  /\ probe' = [probe EXCEPT !.op = "reset", !.summary = NoSummary, !.log = <<>>]
  /\ UNCHANGED <<now, config, limiter, breaker, calls>>

NextMC ==
  \/ \E success \in BOOLEAN, duration \in Latencies : MCRecord(success, duration)
  \/ MCGetSummary
  \/ MCReset

SpecMC == InitMC /\ [][NextMC]_vars

\* =========================================================================
\* Percentiles: getSummary on windows of every length up to MaxPercentileLen
\* =========================================================================

\* the durationMs of n records made in a row: "ramp" is n, n-1, .., 1;
\* "low_first" is k records of 5 ms and then n - k of 20 ms; "high_first" is
\* the same records the other way round
durations(shape, n, k) ==
  [i \in 1..n |->
     CASE shape = "ramp"       -> n + 1 - i
       [] shape = "low_first"  -> IF i <= k THEN 5 ELSE 20
       [] shape = "high_first" -> IF i <= n - k THEN 20 ELSE 5]

\* the collector after record was called once for every record of recs, the
\* window being at least as long as recs
recordedAll(recs) ==
  [metrics |-> recs, totalRequests |-> Len(recs), totalSuccesses |-> Len(recs),
   totalFailures |-> 0]

InitPct ==
  /\ now = 0
  /\ config = [windowSize |-> MaxPercentileLen]
  /\ limiter = NewRateLimiter(TrippingConfig.rateLimiter, 0)
  /\ breaker = NewCircuitBreaker
  /\ calls = [p \in Calls |-> NewCall]
  /\ \E n \in 1..MaxPercentileLen, k \in 0..MaxPercentileLen,
        shape \in {"ramp", "low_first", "high_first"} :
        /\ k <= n
        /\ shape = "ramp" => k = 0
        /\ LET ds == durations(shape, n, k)
               recs == [i \in 1..n |-> requestMetrics(TRUE, ds[i], now)]
           IN  /\ collector = recordedAll(recs)
               /\ probe = [NoCollectorProbe EXCEPT !.op = "record", !.log = recs]

SpecPct == InitPct /\ [][MCGetSummary]_vars

\* =========================================================================
\* The retry utilities on their own: calculateBackoff and isRetryableError
\* =========================================================================

\* RetryConfig values: exponentialBase, maxDelayMs, jitter (in percent, above
\* 100 too) and retryableStatusCodes vary, baseDelayMs is 100
RetryConfigs ==
  { [TrippingConfig EXCEPT !.retry =
        [enabled |-> TRUE, maxRetries |-> 3, baseDelayMs |-> 100,
         maxDelayMs |-> m, exponentialBase |-> e, jitterPct |-> j,
         retryableStatusCodes |-> cs]] :
      m \in {500, 10000}, e \in {1, 2, 3}, j \in {0, 10, 150},
      cs \in {DefaultRetryableStatusCodes, {404}, {}} }

\* values handed to isRetryableError: Error instances (isError) and plain
\* objects, with or without a statusCode, whose message has a network token or
\* has none
ErrorValues ==
  { [isError |-> i, name |-> IF i THEN "Error" ELSE "Object", message |-> msg,
     statusCode |-> sc] :
      i \in BOOLEAN, msg \in NetworkMessages \cup {"Server error"},
      sc \in {Null, 404, 500} }

\* probe, for the retry utilities: op the last function called, n a bit
\* flipped by every call, attempt, rnd and error its arguments, ms and ret
\* what calculateBackoff and isRetryableError returned
NoRetryProbe ==
  [op |-> "none", n |-> 0, attempt |-> Null, rnd |-> Null, error |-> NoError,
   ms |-> Null, ret |-> "none"]

InitRetry ==
  /\ now = 0
  /\ config \in RetryConfigs
  /\ limiter = NewRateLimiter(config.rateLimiter, 0)
  /\ breaker = NewCircuitBreaker
  /\ collector = NewMetricsCollector
  /\ calls = [p \in Calls |-> NewCall]
  /\ probe = NoRetryProbe

RetryCalculateBackoff(attempt, rnd) ==
  /\ probe' = [NoRetryProbe EXCEPT !.op = "calculateBackoff", !.n = 1 - probe.n,
                                   !.attempt = attempt, !.rnd = rnd,
                                   !.ms = calculateBackoff(attempt, config.retry, rnd)]
  /\ UNCHANGED <<now, config, limiter, breaker, collector, calls>>

RetryIsRetryableError(error) ==
  /\ probe' = [NoRetryProbe EXCEPT !.op = "isRetryableError", !.n = 1 - probe.n,
                                   !.error = error,
                                   !.ret = IF isRetryableError(error, config.retry)
                                             THEN "true" ELSE "false"]
  /\ UNCHANGED <<now, config, limiter, breaker, collector, calls>>

NextRetry ==
  \/ \E attempt \in 0..MaxAttempt, rnd \in RandomSamples :
        RetryCalculateBackoff(attempt, rnd)
  \/ \E error \in ErrorValues : RetryIsRetryableError(error)

SpecRetry == InitRetry /\ [][NextRetry]_vars

\* =========================================================================
\* The preset factories: the objects they return and the arrays these hold
\* =========================================================================

\* createDefaultResilienceConfig()
DefaultResilienceConfig ==
  [rateLimiter |-> [enabled |-> TRUE, requestsPerSecond |-> 100, burstSize |-> 200],
   retry |-> [enabled |-> TRUE, maxRetries |-> 3, baseDelayMs |-> 100,
              maxDelayMs |-> 10000, exponentialBase |-> 2, jitterPct |-> 10,
              retryableStatusCodes |-> DefaultRetryableStatusCodes],
   circuitBreaker |-> [enabled |-> TRUE, failureThreshold |-> 5,
                       successThreshold |-> 2, timeoutMs |-> 30000],
   collectMetrics |-> TRUE]

\* createHighThroughputResilienceConfig()
HighThroughputConfig ==
  [rateLimiter |-> [enabled |-> TRUE, requestsPerSecond |-> 1000, burstSize |-> 2000],
   retry |-> [enabled |-> TRUE, maxRetries |-> 2, baseDelayMs |-> 50,
              maxDelayMs |-> 5000, exponentialBase |-> 2, jitterPct |-> 10,
              retryableStatusCodes |-> DefaultRetryableStatusCodes],
   circuitBreaker |-> [enabled |-> TRUE, failureThreshold |-> 10,
                       successThreshold |-> 3, timeoutMs |-> 15000],
   collectMetrics |-> TRUE]

Factories == {"createDefaultResilienceConfig", "createDisabledResilienceConfig",
              "createHighThroughputResilienceConfig"}

\* the object literal a factory evaluates, its arrays apart
literalOf(factory) ==
  CASE factory = "createDefaultResilienceConfig"        -> DefaultResilienceConfig
    [] factory = "createDisabledResilienceConfig"       -> DisabledConfig
    [] factory = "createHighThroughputResilienceConfig" -> HighThroughputConfig

\* the array the literal [429, 500, 502, 503, 504] of DEFAULT_RETRY_CONFIG
\* made when the module was loaded
DefaultCodesArray == 0

\* probe, for the factories: arrays is the heap of retryableStatusCodes
\* arrays (array -> its elements), returned the configurations handed out
\* so far (fields: the object's own fields; codes: the array its
\* retry.retryableStatusCodes refers to), op the last factory called and ret
\* the value it returned, as it read at the return
NoFactoryProbe ==
  [op |-> "none", n |-> 0, ret |-> DisabledConfig,
   arrays |-> (DefaultCodesArray :> DefaultRetryableStatusCodes),
   returned |-> <<>>]

\* the value of a configuration object: its fields, with the elements of the
\* array its retryableStatusCodes refers to
valueOf(c, arrays) ==
  [c.fields EXCEPT !.retry.retryableStatusCodes = arrays[c.codes]]

InitFactory ==
  /\ now = 0
  /\ config = DisabledConfig
  /\ limiter = NewRateLimiter(config.rateLimiter, 0)
  /\ breaker = NewCircuitBreaker
  /\ collector = NewMetricsCollector
  /\ calls = [p \in Calls |-> NewCall]
  /\ probe = NoFactoryProbe

\* a factory call. An array literal makes a new array; the spread
\* { ...DEFAULT_RETRY_CONFIG, enabled: false } copies the reference
CallFactory(factory) ==
  /\ Len(probe.returned) < MaxReturned
  /\ LET spread == factory = "createDisabledResilienceConfig"
         array  == IF spread THEN DefaultCodesArray
                   ELSE Cardinality(DOMAIN probe.arrays)
         arrays == IF spread THEN probe.arrays
                   ELSE probe.arrays @@ (array :> DefaultRetryableStatusCodes)
         c      == [fields |-> literalOf(factory), codes |-> array]
     IN  probe' = [op |-> factory, n |-> 1 - probe.n, ret |-> valueOf(c, arrays),
                   arrays |-> arrays, returned |-> Append(probe.returned, c)]
  /\ UNCHANGED <<now, config, limiter, breaker, collector, calls>>

\* a caller's returned[i].retry.retryableStatusCodes.push(code)
PushStatusCode(i, code) ==
  /\ i \in 1..Len(probe.returned)
  /\ LET array == probe.returned[i].codes
     IN  probe' = [probe EXCEPT !.op = "push", !.n = 1 - probe.n,
                                !.arrays[array] = @ \cup {code}]
  /\ UNCHANGED <<now, config, limiter, breaker, collector, calls>>

\* a caller's returned[i].retry.retryableStatusCodes.length = 0
ClearStatusCodes(i) ==
  /\ i \in 1..Len(probe.returned)
  /\ LET array == probe.returned[i].codes
     IN  probe' = [probe EXCEPT !.op = "clear", !.n = 1 - probe.n,
                                !.arrays[array] = {}]
  /\ UNCHANGED <<now, config, limiter, breaker, collector, calls>>

\* a caller's returned[i].retry.maxRetries = 0
SetMaxRetries(i) ==
  /\ i \in 1..Len(probe.returned)
  /\ probe' = [probe EXCEPT !.op = "assign", !.n = 1 - probe.n,
                            !.returned[i].fields.retry.maxRetries = 0]
  /\ UNCHANGED <<now, config, limiter, breaker, collector, calls>>

NextFactory ==
  \/ \E factory \in Factories : CallFactory(factory)
  \/ \E i \in 1..MaxReturned : PushStatusCode(i, 418)
  \/ \E i \in 1..MaxReturned : ClearStatusCodes(i)
  \/ \E i \in 1..MaxReturned : SetMaxRetries(i)

SpecFactory == InitFactory /\ [][NextFactory]_vars

\* =========================================================================
\* StreamMeter: add, addSync, flush and reset called in any order, the charge
\* function settling whenever it does
\* =========================================================================

\* quantities handed to add and addSync; the non-positive ones are ignored
Quantities == {-1, 0, 1, 2}

\* StreamMeterOptions with an explicit idempotencyKey, with and without a
\* flushThreshold
MeterOptions ==
  { [idempotencyKey |-> "K", flushThreshold |-> th] : th \in {Null, 2} }

\* new StreamMeter(chargeFn, options), kept in probe: _total, _flushed,
\* _flushCount, and what has happened to it: added the sum of the positive
\* quantities added, discarded what reset() threw away, charges the
\* ChargeParams (quantity, idempotencyKey) handed to the charge function
NewStreamMeter ==
  [total |-> 0, flushed |-> FALSE, flushCount |-> 0,
   added |-> 0, discarded |-> 0, charges |-> <<>>]

\* a flush() call, kept in calls: idle, or awaiting the charge it issued
NoFlush == [pc |-> "idle", quantity |-> 0]

\* `${idempotencyKey}_flush_${flushCount}`
flushKey(options, flushCount) ==
  [prefix |-> options.idempotencyKey, flush |-> flushCount]

\* add / addSync up to the threshold test: quantity <= 0 is ignored
addQuantity(m, quantity) ==
  IF quantity <= 0 THEN m
  ELSE [m EXCEPT !.total = m.total + quantity, !.added = m.added + quantity]

\* flush, leaving _total = 0 for after the charge
flushToCharge_keepsTotal(m, options) ==
  IF m.total = 0 THEN m
  ELSE [m EXCEPT !.charges = Append(m.charges,
                    [quantity |-> m.total,
                     idempotencyKey |-> flushKey(options, m.flushCount)])]

\* flush() up to its await: quantity = _total; _total = 0; nothing more when
\* quantity is 0, else the key is made and the charge function called
flushToCharge(m, options) ==
  IF m.total = 0 THEN m
  ELSE [m EXCEPT !.total = 0,
                 !.charges = Append(m.charges,
                    [quantity |-> m.total,
                     idempotencyKey |-> flushKey(options, m.flushCount)])]

InitSM ==
  /\ now = 0
  /\ config \in MeterOptions
  /\ limiter = NewRateLimiter(TrippingConfig.rateLimiter, 0)
  /\ breaker = NewCircuitBreaker
  /\ collector = NewMetricsCollector
  /\ calls = [p \in Calls |-> NoFlush]
  /\ probe = NewStreamMeter

\* flush() called on meter m, the call being p
BeginFlush(p, m) ==
  /\ probe' = flushToCharge(m, config)
  /\ calls' = [calls EXCEPT ![p] =
       IF m.total = 0 THEN NoFlush
       ELSE [pc |-> "awaitCharge", quantity |-> m.total]]

\* the first call that is not in flight
FreeCall(p) ==
  /\ calls[p].pc = "idle"
  /\ \A q \in Calls : q < p => calls[q].pc # "idle"

\* add(quantity), with its auto-flush
SMAdd(p, quantity) ==
  /\ FreeCall(p)
  /\ probe.added + Max2(0, quantity) <= MaxUsage
  /\ LET m == addQuantity(probe, quantity)
     IN  IF quantity > 0 /\ config.flushThreshold # Null
            /\ m.total >= config.flushThreshold
           THEN BeginFlush(p, m)
           ELSE probe' = m /\ UNCHANGED calls
  /\ UNCHANGED <<now, config, limiter, breaker, collector>>

\* addSync(quantity)
SMAddSync(quantity) ==
  /\ probe.added + Max2(0, quantity) <= MaxUsage
  /\ probe' = addQuantity(probe, quantity)
  /\ UNCHANGED <<now, config, limiter, breaker, collector, calls>>

\* flush()
SMFlush(p) ==
  /\ FreeCall(p)
  /\ BeginFlush(p, probe)
  /\ UNCHANGED <<now, config, limiter, breaker, collector>>

\* the charge function resolved: _flushed = true; _flushCount++
SMChargeResolves(p) ==
  /\ calls[p].pc = "awaitCharge"
  /\ probe' = [probe EXCEPT !.flushed = TRUE, !.flushCount = probe.flushCount + 1]
  /\ calls' = [calls EXCEPT ![p] = NoFlush]
  /\ UNCHANGED <<now, config, limiter, breaker, collector>>

\* the charge function rejected: flush() rejects at its await
SMChargeRejects(p) ==
  /\ calls[p].pc = "awaitCharge"
  /\ calls' = [calls EXCEPT ![p] = NoFlush]
  /\ UNCHANGED <<now, config, limiter, breaker, collector, probe>>

\* reset()
SMReset ==
  /\ probe' = [probe EXCEPT !.total = 0, !.discarded = probe.discarded + probe.total]
  /\ UNCHANGED <<now, config, limiter, breaker, collector, calls>>

NextSM ==
  \/ \E p \in Calls, quantity \in Quantities : SMAdd(p, quantity)
  \/ \E quantity \in Quantities : SMAddSync(quantity)
  \/ \E p \in Calls : SMFlush(p)
  \/ \E p \in Calls : SMChargeResolves(p)
  \/ \E p \in Calls : SMChargeRejects(p)
  \/ SMReset

SpecSM == InitSM /\ [][NextSM]_vars

\* =========================================================================
\* Properties of execute
\* =========================================================================

Done(p) == calls[p].pc = "done"
\* the call passed admission: token acquired and allowRequest true
Admitted(p) == calls[p].pc \in {"awaitFn", "backoff"} \/ (Done(p) /\ calls[p].fnCalls > 0)
\* the RequestMetrics records added for call p
MetricsFor(p) ==
  {i \in 1..Len(collector.metrics) : collector.metrics[i].endpoint = p}
\* retryable, as the specification words it: a network-failure message, or a
\* status code among retryableStatusCodes
Retryable(e) ==
  /\ e # Resolved
  /\ e.isError
  /\ \/ e.message \in NetworkMessages
     \/ (e.statusCode # Null /\ e.statusCode \in config.retry.retryableStatusCodes)
LastSettled(p) == calls[p].fnLog[Len(calls[p].fnLog)]

\* C1: every admitted execute call has, once it is over, made exactly one
\* record call on the breaker (recordSuccess if it returned, recordFailure if
\* it threw) and, with collectMetrics on, added exactly one RequestMetrics,
\* whatever the number of retried attempts; while it is still running (its
\* failures so far were retried) it has made no record call and added no
\* RequestMetrics.
C1_RecordedExactlyOnce ==
  \A p \in Calls :
    /\ (Admitted(p) /\ ~Done(p)) =>
         /\ calls[p].cbCalls = <<>>
         /\ MetricsFor(p) = {}
    /\ (Admitted(p) /\ Done(p)) =>
         /\ Len(calls[p].cbCalls) = 1
         /\ calls[p].outcome.kind = "returned" => calls[p].cbCalls[1].op = "recordSuccess"
         /\ calls[p].outcome.kind = "threw" => calls[p].cbCalls[1].op = "recordFailure"
         /\ config.collectMetrics => Cardinality(MetricsFor(p)) = 1

\* C2: once all the execute calls made on a manager that collects metrics are
\* over, totalRequests is the number of execute calls made and so is the number
\* of recordSuccess and recordFailure calls the breaker received.
RECURSIVE SumRecordCalls(_)
SumRecordCalls(n) ==
  IF n = 0 THEN 0 ELSE Len(calls[n].cbCalls) + SumRecordCalls(n - 1)

C2_EveryCallAccountedOnce ==
  (\A p \in Calls : Done(p)) =>
     /\ config.collectMetrics => collector.totalRequests = NumCalls
     /\ SumRecordCalls(NumCalls) = NumCalls

\* call p takes the step after acquire(): the breaker check of Admit
Admitting(p) == calls[p].pc = "acquired" /\ calls'[p].pc # "acquired"
\* fn of call p rejects and execute ends in this step
FailsNow(p) ==
  /\ calls[p].pc = "awaitFn" /\ calls'[p].pc = "done"
  /\ calls'[p].fnLog[Len(calls'[p].fnLog)] # Resolved

\* C3: when the enabled breaker is open at the breaker check, execute throws
\* CircuitBreakerOpenError with the breaker's name and getTimeUntilRetry(), and
\* fn is never invoked; with failureThreshold = 1 one failing execute throws
\* fn's own error and opens the breaker, and an execute that reaches the check
\* before timeoutMs has passed is rejected without invoking fn.
C3_OpenBreakerRejects ==
  /\ [][\A p \in Calls :
          (Admitting(p) /\ config.circuitBreaker.enabled /\ breaker'.state = "open") =>
             /\ calls'[p].pc = "done"
             /\ calls'[p].outcome.error = CircuitBreakerOpenError
             /\ calls'[p].outcome.circuitName = CircuitName
             /\ calls'[p].outcome.timeUntilRetryMs =
                  Max2(0, config.circuitBreaker.timeoutMs - (now - breaker'.lastFailureTime))
             /\ calls'[p].fnCalls = 0]_vars
  /\ [][\A p \in Calls :
          (Admitting(p) /\ config.circuitBreaker.enabled /\ breaker.state = "open"
             /\ now - breaker.lastFailureTime < config.circuitBreaker.timeoutMs) =>
             /\ calls'[p].outcome.error = CircuitBreakerOpenError
             /\ calls'[p].fnCalls = 0]_vars
  /\ [][\A p \in Calls :
          (FailsNow(p) /\ config.circuitBreaker.enabled
             /\ config.circuitBreaker.failureThreshold = 1) =>
             /\ calls'[p].outcome =
                  Threw(calls'[p].fnLog[Len(calls'[p].fnLog)], calls[p].attempt)
             /\ breaker'.state = "open"]_vars

\* call p runs a pass of acquire()'s loop in this step
AcquirePass(p) ==
  /\ config.rateLimiter.enabled
  /\ calls[p].pc \in {"idle", "acquireSleep"}
  /\ calls'[p] # calls[p]
\* the tokens (in thousandths) the bucket holds at time t, and the deadline of
\* call p's acquire(30000), both as the specification defines them
TokensAt(t) ==
  Min2(config.rateLimiter.burstSize * TokenUnit,
       limiter.tokens + (t - limiter.lastRefill) * config.rateLimiter.requestsPerSecond)
DeadlineOf(p) ==
  (IF calls[p].pc = "idle" THEN now ELSE calls[p].startTime) + AcquireTimeoutMs

\* C4: if acquire(30000) returns false, that is a pass of its loop finds no
\* whole token with the 30000 ms deadline reached, execute fails with the
\* rate-limiter-timeout error and fn is never invoked (nor is any token taken
\* or the breaker touched); and acquire gives up in no other case.
C4_RateLimiterTimeout ==
  /\ [][\A p \in Calls :
          AcquirePass(p) =>
             ( (TokensAt(now) < TokenUnit /\ now >= DeadlineOf(p))
               <=> calls'[p].outcome = Threw(RateLimiterTimeout, Null) )]_vars
  /\ [](\A p \in Calls :
          calls[p].outcome.error = RateLimiterTimeout =>
             /\ Done(p)
             /\ calls[p].fnCalls = 0 /\ calls[p].fnLog = <<>>
             /\ calls[p].cbCalls = <<>> /\ calls[p].tokensTaken = 0
             /\ MetricsFor(p) = {})

C4_Witness ==
  \E p \in Calls : Done(p) /\ calls[p].outcome = Threw(RateLimiterTimeout, Null)

\* fn of call p rejected with a retryable error k times, then resolved
FailedThenResolved(p, k) ==
  /\ Len(calls[p].fnLog) = k + 1
  /\ \A i \in 1..k : Retryable(calls[p].fnLog[i])
  /\ calls[p].fnLog[k + 1] = Resolved

\* C5: with retry enabled, if fn fails with a retryable error on its first k
\* attempts (1 <= k <= maxRetries) and succeeds on attempt k+1, execute returns
\* that attempt's result, fn has been invoked exactly k+1 times, the breaker
\* received one recordSuccess and no recordFailure from the call (which leaves
\* a closed breaker closed), and the call's one metric has success = true and
\* retryCount = k.
C5_RetryThenSuccess ==
  \A p \in Calls : \A k \in 1..config.retry.maxRetries :
    (config.retry.enabled /\ Done(p) /\ FailedThenResolved(p, k)) =>
       /\ calls[p].outcome = Returned(k)
       /\ calls[p].fnCalls = k + 1
       /\ Len(calls[p].cbCalls) = 1
       /\ calls[p].cbCalls[1].op = "recordSuccess"
       /\ calls[p].cbCalls[1].pre = "closed" => calls[p].cbCalls[1].post = "closed"
       /\ config.collectMetrics =>
            /\ Cardinality(MetricsFor(p)) = 1
            /\ \A i \in MetricsFor(p) :
                 /\ collector.metrics[i].success
                 /\ collector.metrics[i].retryCount = k

C5_Witness ==
  \E p \in Calls :
    /\ config.retry.enabled /\ config.collectMetrics /\ Done(p)
    /\ FailedThenResolved(p, config.retry.maxRetries)
    /\ config.retry.maxRetries >= 2

\* C6: if an attempt of fn fails with an error that is not retryable
\* (isRetryableError false, or retry disabled), execute makes no further
\* attempt: it throws the very error fn threw, and recordFailure and one
\* failure metric are applied once.
C6_NonRetryableSurfaces ==
  \A p \in Calls :
    (calls[p].fnLog # <<>> /\ LastSettled(p) # Resolved
       /\ ~(config.retry.enabled /\ Retryable(LastSettled(p)))) =>
       /\ Done(p)
       /\ calls[p].fnCalls = Len(calls[p].fnLog)
       /\ calls[p].outcome = Threw(LastSettled(p), Len(calls[p].fnLog) - 1)
       /\ Len(calls[p].cbCalls) = 1
       /\ calls[p].cbCalls[1].op = "recordFailure"
       /\ config.collectMetrics =>
            /\ Cardinality(MetricsFor(p)) = 1
            /\ \A i \in MetricsFor(p) : ~collector.metrics[i].success

\* min(baseDelayMs * exponentialBase^n, maxDelayMs)
CappedDelay(n) ==
  Min2(config.retry.baseDelayMs * Pow(config.retry.exponentialBase, n),
       config.retry.maxDelayMs)
JitterOf(d) == (d * config.retry.jitterPct) \div 100

Calling(op) == now' = now /\ probe'.n # probe.n /\ probe'.op = op
CBEnabled == config.circuitBreaker.enabled

\* C8: an enabled, closed breaker opens exactly when the recordFailure calls
\* since the last recordSuccess (or since it became closed or was reset) reach
\* failureThreshold: fewer leave it closed, and a recordSuccess while closed
\* sets failureCount to 0, so that earlier failures no longer count.
C8_OpensAtThreshold ==
  /\ [](CBEnabled /\ breaker.state = "closed" =>
          /\ probe.failuresSince < config.circuitBreaker.failureThreshold
          /\ breaker.failureCount = probe.failuresSince)
  /\ [][(CBEnabled /\ breaker.state = "closed") =>
          /\ Calling("recordFailure") =>
               /\ breaker'.state = "open" <=>
                    probe'.failuresSince = config.circuitBreaker.failureThreshold
               /\ breaker'.state = "closed" <=>
                    probe'.failuresSince < config.circuitBreaker.failureThreshold
          /\ Calling("recordSuccess") =>
               /\ breaker'.state = "closed"
               /\ breaker'.failureCount = 0
          /\ breaker'.state # "closed" => Calling("recordFailure")]_vars

C8_Witness ==
  /\ CBEnabled /\ config.circuitBreaker.failureThreshold >= 2
  /\ breaker.state = "open" /\ probe.op = "recordFailure"
  /\ probe.failuresSince = config.circuitBreaker.failureThreshold
  /\ breaker.failureCount = config.circuitBreaker.failureThreshold

\* C9: while an opened breaker has now - lastFailureTime < timeoutMs, getState
\* returns open and allowRequest returns false; the first getState or
\* allowRequest call made once now - lastFailureTime >= timeoutMs moves it to
\* half_open.  The move happens only inside such a read: the passing of time
\* alone changes nothing.
C9_LazyHalfOpen ==
  /\ [][(CBEnabled /\ breaker.state = "open"
           /\ (Calling("getState") \/ Calling("allowRequest"))) =>
          IF now - breaker.lastFailureTime < config.circuitBreaker.timeoutMs
            THEN /\ breaker' = breaker
                 /\ probe'.ret = IF probe'.op = "getState" THEN "open" ELSE "false"
            ELSE /\ breaker'.state = "half_open"
                 /\ probe'.ret = IF probe'.op = "getState" THEN "half_open" ELSE "true"]_vars
  /\ [][(breaker.state = "open" /\ breaker'.state = "half_open") =>
          /\ Calling("getState") \/ Calling("allowRequest")
          /\ now - breaker.lastFailureTime >= config.circuitBreaker.timeoutMs]_vars
  /\ [][now' # now => breaker' = breaker]_vars

C9_Witness ==
  /\ CBEnabled /\ breaker.state = "half_open"
  /\ probe.op = "getState" /\ probe.ret = "half_open"
  /\ now - breaker.lastFailureTime >= config.circuitBreaker.timeoutMs

\* C10: in half_open each recordSuccess increments successCount, and the
\* breaker stays half_open until successCount reaches successThreshold, when it
\* becomes closed; every half_open period starts counting from 0, so that
\* successCount is the number of successes recorded in the current period.
C10_ClosesAfterSuccesses ==
  /\ [][(CBEnabled /\ breaker.state = "half_open" /\ Calling("recordSuccess")) =>
          /\ breaker'.successCount = breaker.successCount + 1
          /\ breaker'.state =
               IF breaker.successCount + 1 >= config.circuitBreaker.successThreshold
                 THEN "closed" ELSE "half_open"]_vars
  /\ [][(breaker.state # "half_open" /\ breaker'.state = "half_open") =>
          breaker'.successCount = 0]_vars
  /\ [](breaker.state = "half_open" =>
          /\ breaker.successCount = probe.successesInPeriod
          /\ breaker.successCount < config.circuitBreaker.successThreshold)
  /\ [][(breaker.state = "half_open" /\ breaker'.state = "closed") =>
          \/ Calling("reset")
          \/ /\ Calling("recordSuccess")
             /\ probe.successesInPeriod + 1 = config.circuitBreaker.successThreshold]_vars

\* a second half_open period, with one success recorded of the two it needs
C10_Witness ==
  /\ CBEnabled /\ config.circuitBreaker.successThreshold >= 2
  /\ breaker.state = "half_open" /\ breaker.successCount = 1
  /\ probe.op = "recordSuccess"
  /\ breaker.failureCount >= 2

\* C11: in half_open any one recordFailure moves the breaker back to open and
\* sets lastFailureTime to the current time, whatever successCount and
\* failureCount are.
C11_HalfOpenFailureReopens ==
  [][(CBEnabled /\ breaker.state = "half_open" /\ Calling("recordFailure")) =>
       /\ breaker'.state = "open"
       /\ breaker'.lastFailureTime = now]_vars

\* a half_open period with one success recorded, ended by a failure
C11_Witness ==
  /\ CBEnabled /\ probe.op = "recordFailure" /\ probe.pre = "half_open"
  /\ breaker.state = "open" /\ breaker.lastFailureTime = now /\ now > 0
  /\ breaker.successCount = 1

\* the recordSuccess call that closes a half_open breaker
ClosingSuccess ==
  /\ CBEnabled /\ breaker.state = "half_open" /\ Calling("recordSuccess")
  /\ breaker'.state = "closed"

\* C12 as stated: when a half_open breaker closes because successCount has
\* reached successThreshold, the transition sets both failureCount and
\* successCount to 0.
C12_ClosingResetsBothCounts ==
  [][ClosingSuccess =>
       /\ breaker'.failureCount = 0
       /\ breaker'.successCount = 0]_vars

\* C12 amended: when a half_open breaker closes because successCount has
\* reached successThreshold, the transition sets failureCount to 0 and leaves
\* successCount at successThreshold; successCount is 0 again when the breaker
\* next becomes half_open, or after reset().
C12_ClosingResetsFailureCount ==
  /\ [][ClosingSuccess =>
          /\ breaker'.failureCount = 0
          /\ breaker'.successCount = config.circuitBreaker.successThreshold]_vars
  /\ [][(breaker.successCount # 0 /\ breaker'.successCount = 0) =>
          \/ Calling("reset")
          \/ breaker.state = "open" /\ breaker'.state = "half_open"]_vars

C12_Witness ==
  /\ CBEnabled /\ probe.op = "recordSuccess" /\ probe.pre = "half_open"
  /\ breaker.state = "closed" /\ breaker.failureCount = 0
  /\ breaker.successCount = config.circuitBreaker.successThreshold
  /\ config.circuitBreaker.successThreshold >= 2

\* C14: a breaker with enabled = false keeps state, failureCount, successCount
\* and lastFailureTime at their initial values whatever recordSuccess and
\* recordFailure calls are made, and allowRequest always returns true.
C14_DisabledBreakerInert ==
  /\ [](~CBEnabled => breaker = NewCircuitBreaker)
  /\ [][(~CBEnabled /\ (Calling("recordSuccess") \/ Calling("recordFailure"))) =>
          breaker' = breaker]_vars
  /\ [][(~CBEnabled /\ Calling("allowRequest")) => probe'.ret = "true"]_vars

\* allowRequest answers true after failureThreshold recordFailure calls in a row
C14_Witness ==
  /\ ~CBEnabled /\ probe.op = "allowRequest" /\ probe.ret = "true"
  /\ probe.failuresSince >= config.circuitBreaker.failureThreshold
  /\ breaker = NewCircuitBreaker

\* C15: getTimeUntilRetry returns max(0, timeoutMs - (now - lastFailureTime))
\* when the breaker is open and 0 in every other state, a value within
\* 0..timeoutMs; it changes nothing.
C15_TimeUntilRetry ==
  [][Calling("getTimeUntilRetry") =>
       /\ probe'.ms = IF breaker.state = "open"
                        THEN Max2(0, config.circuitBreaker.timeoutMs
                                       - (now - breaker.lastFailureTime))
                        ELSE 0
       /\ probe'.ms \in 0..config.circuitBreaker.timeoutMs
       /\ breaker' = breaker]_vars

\* part of the timeout is still to run
C15_Witness ==
  /\ probe.op = "getTimeUntilRetry" /\ breaker.state = "open"
  /\ probe.ms > 0 /\ probe.ms < config.circuitBreaker.timeoutMs
  /\ probe.ms = config.circuitBreaker.timeoutMs - (now - breaker.lastFailureTime)

\* C16: reset(), called in any reachable state, leaves state closed,
\* failureCount 0, successCount 0 and lastFailureTime null: the state of a
\* freshly constructed breaker, from which every later call behaves as on a
\* fresh breaker.
C16_ResetIsFresh ==
  [][Calling("reset") => breaker' = NewCircuitBreaker]_vars

\* reset of an open breaker that had counted successes and failures
C16_Witness ==
  /\ CBEnabled /\ probe.op = "reset" /\ probe.pre = "open" /\ now > 0
  /\ breaker = NewCircuitBreaker

\* the state field once checkStateTransition has run at the current time
StateAfterCheck ==
  IF breaker.state = "open"
     /\ now - breaker.lastFailureTime >= config.circuitBreaker.timeoutMs
    THEN "half_open" ELSE breaker.state
\* call p was let through by allowRequest and is awaiting fn
InFlight(p) == calls[p].pc = "awaitFn"

\* C13: the allowRequest of an enabled breaker returns false if and only if
\* the state after the lazy timeout check is open: execute is then rejected
\* with CircuitBreakerOpenError, and otherwise goes on to invoke fn.  In
\* half_open it returns true to every caller, however many execute calls are
\* already in flight: there is no single-probe limit.
C13_HalfOpenAdmitsAll ==
  /\ [][\A p \in Calls :
          (Admitting(p) /\ CBEnabled) =>
             /\ breaker'.state = StateAfterCheck
             /\ IF StateAfterCheck = "open"
                  THEN /\ calls'[p].outcome.error = CircuitBreakerOpenError
                       /\ calls'[p].fnCalls = 0
                  ELSE /\ InFlight(p)'
                       /\ calls'[p].fnCalls = 1
                       /\ calls'[p].outcome = NoOutcome]_vars
  /\ [][\A p \in Calls :
          (Admitting(p) /\ CBEnabled /\ StateAfterCheck = "half_open"
             /\ \E q \in Calls \ {p} : InFlight(q)) => InFlight(p)']_vars

\* all the calls in flight at once, each let through while the breaker was
\* half_open, and the breaker still half_open
C13_Witness ==
  /\ CBEnabled /\ breaker.state = "half_open"
  /\ \A p \in Calls :
       /\ InFlight(p)
       /\ calls[p].invokedAt >= breaker.lastFailureTime + config.circuitBreaker.timeoutMs

\* =========================================================================
\* Properties of the limiter
\* =========================================================================

RLEnabled == config.rateLimiter.enabled
\* the calls granted a token so far, by acquire and by tryAcquire
RECURSIVE SumTokensTaken(_)
SumTokensTaken(n) ==
  IF n = 0 THEN 0 ELSE calls[n].tokensTaken + SumTokensTaken(n - 1)
GrantedSoFar == probe.granted + SumTokensTaken(NumCalls)
\* call p's acquire runs a pass of its loop in this step, and what comes of it
PassNow(p) ==
  /\ RLEnabled /\ calls[p].pc \in {"idle", "acquireSleep"}
  /\ calls'[p] # calls[p]
GrantedNow(p) == calls'[p].pc = "done" /\ probe'.result[p].ret = "true"
RefusedNow(p) == calls'[p].pc = "done" /\ probe'.result[p].ret = "false"

\* C17: of the tryAcquire calls made on a freshly constructed enabled limiter
\* with no time elapsing, exactly the first burstSize return true: the next
\* one returns false.
C17_BurstThenRefusal ==
  [][(RLEnabled /\ now = 0 /\ (\A p \in Calls : calls[p].pc = "idle")
        /\ Calling("tryAcquire")) =>
       (probe'.ret = "true" <=> probe.tries < config.rateLimiter.burstSize)]_vars

C17_Witness ==
  /\ RLEnabled /\ now = 0 /\ \A p \in Calls : calls[p].pc = "idle"
  /\ config.rateLimiter.burstSize >= 2
  /\ probe.op = "tryAcquire" /\ probe.ret = "false"
  /\ probe.tries = config.rateLimiter.burstSize + 1
  /\ probe.granted = config.rateLimiter.burstSize

\* C18: for an enabled limiter, under every interleaving of acquire and
\* tryAcquire calls, the calls granted a token by time t since construction
\* number at most burstSize + requestsPerSecond * t (t in seconds), and a call
\* is granted only when refill has made a whole token.
C18_RateBound ==
  /\ [](RLEnabled =>
          GrantedSoFar * TokenUnit
            <= config.rateLimiter.burstSize * TokenUnit
                 + config.rateLimiter.requestsPerSecond * now)
  /\ [][(RLEnabled /\ GrantedSoFar' > GrantedSoFar) =>
          /\ GrantedSoFar' = GrantedSoFar + 1
          /\ TokensAt(now) >= TokenUnit]_vars

\* the burst is used up, a waiting caller was granted the refilled token, the
\* bound is met and another caller is still waiting
C18_Witness ==
  /\ RLEnabled /\ now > 0
  /\ GrantedSoFar > config.rateLimiter.burstSize
  /\ GrantedSoFar * TokenUnit
       = config.rateLimiter.burstSize * TokenUnit
           + config.rateLimiter.requestsPerSecond * now
  /\ \E p, q \in Calls :
       /\ probe.result[p].ret = "true"
       /\ calls[q].pc = "acquireSleep"

\* C19: in every reachable state of a limiter, after any acquire, tryAcquire
\* and availableTokens accesses under a non-decreasing clock,
\* 0 <= tokens <= burstSize.
C19_TokensInRange ==
  /\ limiter.tokens >= 0
  /\ limiter.tokens <= config.rateLimiter.burstSize * TokenUnit

\* a bucket emptied and then left long enough to overfill, read back full
C19_Witness ==
  /\ RLEnabled /\ probe.op = "availableTokens" /\ probe.tries > 0
  /\ limiter.lastRefill = now
  /\ config.rateLimiter.requestsPerSecond * now
       > config.rateLimiter.burstSize * TokenUnit
  /\ limiter.tokens = config.rateLimiter.burstSize * TokenUnit
  /\ \E p \in Calls : calls[p].tokensTaken = 1

\* C20 as stated: acquire(timeoutMs) on an enabled limiter returns true only
\* after consuming exactly one token, returns false consuming nothing, and
\* once its deadline has passed without a whole token having been in the
\* bucket before the deadline it returns false, never true.
C20_NoGrantAfterDeadline ==
  /\ [][\A p \in Calls :
          (PassNow(p) /\ GrantedNow(p)) =>
             /\ limiter'.tokens = TokensAt(now) - TokenUnit
             /\ calls'[p].tokensTaken = 1]_vars
  /\ [][\A p \in Calls :
          (PassNow(p) /\ RefusedNow(p)) =>
             /\ limiter'.tokens = TokensAt(now)
             /\ calls'[p].tokensTaken = 0]_vars
  /\ [][\A p \in Calls :
          (PassNow(p) /\ calls'[p].pc = "done" /\ calls[p].deadline # Null
             /\ now > calls[p].deadline /\ ~probe.hadToken[p]) =>
             RefusedNow(p)]_vars

\* C20 amended: acquire(timeoutMs) on an enabled limiter returns true exactly
\* at a pass of its loop that finds a whole token, consuming exactly one; it
\* returns false, consuming nothing, exactly at a pass that finds no whole
\* token with the deadline reached; otherwise it sleeps, not beyond the
\* deadline.  A pass that runs after the deadline (its timer fired late)
\* still returns true if the bucket holds a whole token by then.
C20_AcquirePasses ==
  /\ [][\A p \in Calls :
          PassNow(p) =>
             /\ GrantedNow(p) <=> TokensAt(now) >= TokenUnit
             /\ RefusedNow(p) <=>
                  /\ TokensAt(now) < TokenUnit
                  /\ calls'[p].deadline # Null /\ now >= calls'[p].deadline
             /\ GrantedNow(p) =>
                  /\ limiter'.tokens = TokensAt(now) - TokenUnit
                  /\ calls'[p].tokensTaken = 1
             /\ ~GrantedNow(p) =>
                  /\ limiter'.tokens = TokensAt(now)
                  /\ calls'[p].tokensTaken = 0
             /\ calls'[p].pc = "acquireSleep" =>
                  /\ calls'[p].wakeAt >= now
                  /\ calls'[p].deadline # Null =>
                       calls'[p].wakeAt <= calls'[p].deadline]_vars
  /\ [][\A p \in Calls :
          (calls[p].pc # "done" /\ calls'[p].pc = "done") => PassNow(p) \/ ~RLEnabled]_vars

\* a caller granted after its deadline, no whole token having been in the
\* bucket up to the deadline, and another refused at its deadline
C20_Witness ==
  /\ RLEnabled
  /\ \E p, q \in Calls :
       /\ probe.result[p] = [ret |-> "true", late |-> TRUE]
       /\ ~probe.hadToken[p]
       /\ probe.result[q] = [ret |-> "false", late |-> FALSE]

\* call p calls acquire in this step
AcquireCalled(p) == calls[p].pc = "idle" /\ calls'[p].pc # "idle"

\* C21: with enabled = false every acquire and every tryAcquire call returns
\* true at once and leaves tokens and lastRefill as they were, however many
\* calls are made and whatever the rate and the burst size.
C21_DisabledLimiterInert ==
  /\ [][(~RLEnabled /\ Calling("tryAcquire")) =>
          /\ probe'.ret = "true"
          /\ limiter' = limiter]_vars
  /\ [][\A p \in Calls :
          (~RLEnabled /\ AcquireCalled(p)) =>
             /\ calls'[p].pc = "done"
             /\ probe'.result[p].ret = "true"
             /\ limiter' = limiter]_vars

\* more calls let through than the bucket ever held, later than construction,
\* with the bucket as it was constructed
C21_Witness ==
  /\ ~RLEnabled /\ now > 0
  /\ probe.op = "tryAcquire" /\ probe.granted > config.rateLimiter.burstSize
  /\ \A p \in Calls : probe.result[p].ret = "true"
  /\ limiter = NewRateLimiter(config.rateLimiter, 0)

\* =========================================================================
\* Properties of the collector
\* =========================================================================

\* the last k elements of s, in order
LastN(s, k) == IF Len(s) <= k THEN s ELSE SubSeq(s, Len(s) - k + 1, Len(s))

\* the records of s that were successful
SuccessesIn(s) == Cardinality({i \in 1..Len(s) : s[i].success})

\* C22: after n record() calls on a collector of capacity c with no reset in
\* between, the window is the most recent min(n, c) records in arrival order,
\* its length never exceeds c, totalRequests = n, and totalSuccesses and
\* totalFailures are the lifetime numbers of successful and failed records
C22_WindowAndLifetime ==
  LET n == Len(probe.log)
      c == config.windowSize
  IN  /\ collector.metrics = LastN(probe.log, c)
      /\ Len(collector.metrics) = Min2(n, c)
      /\ Len(collector.metrics) <= c
      /\ collector.totalRequests = n
      /\ collector.totalSuccesses = SuccessesIn(probe.log)
      /\ collector.totalFailures = n - SuccessesIn(probe.log)

\* a success and then a failure were evicted from a window of two
C22_Witness ==
  /\ config.windowSize = 2
  /\ Len(probe.log) = 4
  /\ probe.log[1].success /\ ~probe.log[2].success
  /\ probe.log[3].durationMs # probe.log[4].durationMs
  /\ collector.metrics = <<probe.log[3], probe.log[4]>>
  /\ collector.totalSuccesses > SuccessesIn(collector.metrics)
  /\ collector.totalFailures > Len(collector.metrics) - SuccessesIn(collector.metrics)

\* getSummary has just returned the summary of a non-empty window
Summarised == probe.op = "getSummary" /\ probe.summary.windowSize > 0

\* C23: successRate of getSummary is over the current window only: the number
\* of success records in the window divided by the window length, times 100
\* (in thousandths of a percent)
C23_WindowedSuccessRate ==
  Summarised =>
    LET window == LastN(probe.log, config.windowSize)
    IN  /\ probe.summary.windowSize = Len(window)
        /\ probe.summary.successRate =
             (SuccessesIn(window) * 100 * Milli) \div Len(window)

\* records were evicted and the windowed rate differs from the lifetime rate
C23_Witness ==
  /\ Summarised
  /\ probe.summary.totalRequests > probe.summary.windowSize
  /\ probe.summary.successRate = 50 * Milli
  /\ probe.summary.totalSuccesses * 100 # 50 * probe.summary.totalRequests

\* the durationMs of the records in the window, in arrival order
WindowLatencies == [i \in 1..Len(collector.metrics) |-> collector.metrics[i].durationMs]

\* v is the latency at index i (from 0) of the window's latencies in
\* ascending order: at most i of them are smaller and more than i are not larger
IsOrderStatistic(v, i) ==
  LET ls == WindowLatencies
  IN  /\ \E j \in 1..Len(ls) : ls[j] = v
      /\ Cardinality({j \in 1..Len(ls) : ls[j] < v}) <= i
      /\ Cardinality({j \in 1..Len(ls) : ls[j] <= v}) > i

\* floor(n * pct / 100)
FloorPct(n, pct) == CHOOSE i \in 0..n : i * 100 <= n * pct /\ n * pct < (i + 1) * 100

\* C24: for a non-empty window of n latencies getSummary returns
\* pP = sorted[floor(n x P)] for P = 0.5, 0.95, 0.99, the index being within
\* 0..n-1, with min <= p50 <= p95 <= p99 <= max and every reported value a
\* latency of the window
C24_Percentiles ==
  Summarised =>
    LET n == Len(collector.metrics)
        s == probe.summary
    IN  /\ \A pct \in {50, 95, 99} : FloorPct(n, pct) \in 0..(n - 1)
        /\ IsOrderStatistic(s.minLatencyMs, 0)
        /\ IsOrderStatistic(s.p50LatencyMs, FloorPct(n, 50))
        /\ IsOrderStatistic(s.p95LatencyMs, FloorPct(n, 95))
        /\ IsOrderStatistic(s.p99LatencyMs, FloorPct(n, 99))
        /\ IsOrderStatistic(s.maxLatencyMs, n - 1)
        /\ s.minLatencyMs <= s.p50LatencyMs
        /\ s.p50LatencyMs <= s.p95LatencyMs
        /\ s.p95LatencyMs <= s.p99LatencyMs
        /\ s.p99LatencyMs <= s.maxLatencyMs

\* 101 records that arrived in descending order: the five values differ
C24_Witness ==
  /\ Summarised
  /\ probe.summary.windowSize = 101
  /\ collector.metrics[1].durationMs = 101
  /\ probe.summary.minLatencyMs = 1
  /\ probe.summary.p50LatencyMs = 51
  /\ probe.summary.p95LatencyMs = 96
  /\ probe.summary.p99LatencyMs = 100
  /\ probe.summary.maxLatencyMs = 101

\* =========================================================================
\* Properties of the retry utilities
\* =========================================================================

BackoffReturned == probe.op = "calculateBackoff"

\* C25: calculateBackoff(n, config) lies in [max(0, d - d x jitter),
\* d + d x jitter], d = min(baseDelayMs x exponentialBase^n, maxDelayMs); with
\* jitter = 0 it equals d exactly and is non-decreasing in n
C25_BackoffRange ==
  /\ [](BackoffReturned =>
          LET d == CappedDelay(probe.attempt)
          IN  /\ probe.ms >= Max2(0, d - JitterOf(d))
              /\ probe.ms <= d + JitterOf(d)
              /\ config.retry.jitterPct = 0 => probe.ms = d)
  /\ [][(/\ BackoffReturned
         /\ Calling("calculateBackoff")
         /\ config.retry.jitterPct = 0
         /\ probe'.attempt >= probe.attempt) => probe'.ms >= probe.ms]_vars

\* base 100, exponent base 2, no jitter: attempt 3 gives 800, and a jittered
\* delay below the cap is seen elsewhere
C25_Witness ==
  /\ BackoffReturned
  /\ config.retry.exponentialBase = 2 /\ config.retry.jitterPct = 0
  /\ config.retry.maxDelayMs = 10000
  /\ probe.attempt = 3 /\ probe.ms = 800

\* C26: the delay calculateBackoff returns never exceeds config.maxDelayMs
C26_NeverAboveMaxDelay ==
  BackoffReturned => probe.ms <= config.retry.maxDelayMs

Classified == probe.op = "isRetryableError"

\* the message has a network-failure token, or there is a statusCode and it is
\* one of retryableStatusCodes
NetworkOrListed(e) ==
  \/ e.message \in NetworkMessages
  \/ (e.statusCode # Null /\ e.statusCode \in config.retry.retryableStatusCodes)

\* C27: isRetryableError returns true exactly when the error's message
\* contains a network-failure token, whatever its status code, or the error
\* carries a statusCode that is in retryableStatusCodes; false otherwise
C27_RetryableExactly ==
  Classified => (probe.ret = "true" <=> NetworkOrListed(probe.error))

\* C27, amended: for an instance of Error, true exactly when the message
\* contains a network-failure token, whatever the status code, or the
\* statusCode is in retryableStatusCodes; false for every value that is not an
\* instance of Error
C27_RetryableForErrors ==
  Classified =>
    (probe.ret = "true" <=> (probe.error.isError /\ NetworkOrListed(probe.error)))

\* an Error with a network message and a status code that is not listed
C27_Witness ==
  /\ Classified
  /\ probe.error.isError
  /\ probe.error.message = "connect ETIMEDOUT"
  /\ probe.error.statusCode = 404
  /\ 404 \notin config.retry.retryableStatusCodes
  /\ probe.ret = "true"

\* =========================================================================
\* Properties of the preset factories
\* =========================================================================

\* C28: each factory call returns a fresh configuration that shares no
\* mutable state with module-level values or with another returned
\* configuration: whatever was done to the configurations returned before, a
\* factory returns the value of its literal, the array of
\* DEFAULT_RETRY_CONFIG keeps its elements, and no two returned
\* configurations (nor one and DEFAULT_RETRY_CONFIG) refer to the same array
C28_FactoriesFresh ==
  /\ probe.op \in Factories => probe.ret = literalOf(probe.op)
  /\ probe.arrays[DefaultCodesArray] = DefaultRetryableStatusCodes
  /\ \A i \in 1..Len(probe.returned) :
       /\ probe.returned[i].codes # DefaultCodesArray
       /\ \A j \in 1..Len(probe.returned) :
            i # j => probe.returned[i].codes # probe.returned[j].codes

\* =========================================================================
\* Properties of getMetrics and getHealth
\* =========================================================================

\* the breaker is open and timeoutMs has passed since the last failure
TimeoutElapsed ==
  /\ breaker.state = "open"
  /\ breaker.lastFailureTime # Null
  /\ now - breaker.lastFailureTime >= config.circuitBreaker.timeoutMs

\* C29: getMetrics() and getHealth() leave the breaker's state, failureCount,
\* successCount and lastFailureTime and the collector's window and lifetime
\* counters as they were before the call
C29_ReadOnly ==
  [][(Calling("getMetrics") \/ Calling("getHealth")) =>
        /\ breaker' = breaker
        /\ collector' = collector]_vars

\* C29, amended: getMetrics() changes nothing; getHealth() leaves the
\* collector, failureCount and lastFailureTime as they were, and the breaker's
\* state and successCount too unless the breaker is open with timeoutMs
\* elapsed: then it moves the breaker to half_open with successCount 0
C29_ReadOnlyButLazyMove ==
  /\ [][Calling("getMetrics") =>
          /\ breaker' = breaker
          /\ collector' = collector]_vars
  /\ [][Calling("getHealth") =>
          /\ collector' = collector
          /\ IF TimeoutElapsed
               THEN breaker' = [breaker EXCEPT !.state = "half_open",
                                               !.successCount = 0]
               ELSE breaker' = breaker]_vars

\* getHealth found the breaker open and left it half-open, a failure
\* metric being in the window
C29_Witness ==
  /\ probe.op = "getHealth"
  /\ probe.pre = "open" /\ probe.ret = "half_open"
  /\ breaker.state = "half_open"
  /\ collector.totalFailures > 0

\* =========================================================================
\* Properties of the attempt loop's fallback
\* =========================================================================

\* C30: the fallback after the attempt loop is unreachable: execute never
\* throws RetryExhaustedError nor the 'Unexpected execution path' error
C30_FallbackUnreachable ==
  \A p \in Calls :
    Done(p) => /\ calls[p].outcome.kind = "threw" =>
                    calls[p].outcome.error \notin {RetryExhaustedError, UnexpectedPath}

\* =========================================================================
\* Properties of execute under concurrency
\* =========================================================================

\* every execute call that has started ends
C31_Terminates ==
  \A p \in Calls : (calls[p].pc # "idle") ~> Done(p)

\* a waiter is admitted or rejected no later than the first pass of acquire
\* at or after its deadline, and fn is invoked at most maxRetries + 1 times
C31_Bounded ==
  \A p \in Calls :
    /\ calls[p].pc = "acquireSleep" => calls[p].wakeAt <= calls[p].deadline
    /\ calls[p].fnCalls <= config.retry.maxRetries + 1

\* a call that is over returned fn's result or threw the rate-limiter
\* timeout, CircuitBreakerOpenError or the error fn threw
C31_Outcomes ==
  \A p \in Calls :
    Done(p) =>
      \/ calls[p].outcome.kind = "returned" /\ LastSettled(p) = Resolved
      \/ /\ calls[p].outcome.kind = "threw"
         /\ \/ calls[p].outcome.error \in {RateLimiterTimeout, CircuitBreakerOpenError}
            \/ /\ calls[p].fnLog # <<>>
               /\ calls[p].outcome.error = LastSettled(p)

\* C31: every execute call eventually completes (it returns fn's result, or
\* throws the rate-limiter timeout, CircuitBreakerOpenError or fn's error),
\* provided time advances and every invocation of fn terminates, also with
\* several callers on one limiter: each waiter is admitted or rejected at its
\* deadline, and the loop makes at most maxRetries + 1 attempts
C31_EventuallyCompletes ==
  /\ C31_Terminates
  /\ []C31_Bounded
  /\ []C31_Outcomes

\* =========================================================================
\* Further properties of the breaker
\* =========================================================================

\* C32: in every reachable state of an enabled breaker (thresholds >= 1) a
\* closed breaker has failureCount < failureThreshold, a half-open one has
\* successCount < successThreshold, and an open one has lastFailureTime set
C32_StateInvariant ==
  CBEnabled =>
    /\ breaker.state = "closed" =>
         breaker.failureCount < config.circuitBreaker.failureThreshold
    /\ breaker.state = "half_open" =>
         breaker.successCount < config.circuitBreaker.successThreshold
    /\ breaker.state = "open" => breaker.lastFailureTime # Null

\* a half-open breaker one success short of closing, after failures
C32_Witness ==
  /\ CBEnabled
  /\ breaker.state = "half_open"
  /\ breaker.successCount = config.circuitBreaker.successThreshold - 1
  /\ breaker.successCount >= 1
  /\ breaker.failureCount >= config.circuitBreaker.failureThreshold

\* C33: recordFailure on a breaker whose stored state is open leaves it open,
\* adds one to failureCount and sets lastFailureTime to now, so that it can
\* become half-open at now + timeoutMs at the earliest; recordSuccess on a
\* breaker whose stored state is open changes nothing
C33_OpenBreakerRecords ==
  /\ [][(breaker.state = "open" /\ Calling("recordFailure")) =>
          /\ breaker' = [breaker EXCEPT !.failureCount = breaker.failureCount + 1,
                                        !.lastFailureTime = now]
          /\ getTimeUntilRetry(breaker', config.circuitBreaker, now) =
               config.circuitBreaker.timeoutMs]_vars
  /\ [][(breaker.state = "open" /\ Calling("recordSuccess")) =>
          breaker' = breaker]_vars

\* a failure recorded on a breaker that had opened earlier
C33_Witness ==
  /\ probe.op = "recordFailure" /\ probe.pre = "open"
  /\ breaker.state = "open"
  /\ now > 0 /\ breaker.lastFailureTime = now
  /\ breaker.failureCount > config.circuitBreaker.failureThreshold

\* call p moves in this step
Moves(p) == calls'[p] # calls[p]

\* call p has made the breaker open: one of its recordFailure calls found it
\* closed or half-open and left it open
OpenedBy(p) ==
  \E i \in 1..Len(calls[p].cbCalls) :
     /\ calls[p].cbCalls[i].op = "recordFailure"
     /\ calls[p].cbCalls[i].pre # "open"
     /\ calls[p].cbCalls[i].post = "open"

\* C34: the breaker is consulted once per execute call, before the first
\* attempt: the call is let in exactly when the breaker, after that check, is
\* closed or half-open; every later attempt starts when the backoff sleep
\* ends, whatever the breaker's state and without touching the breaker, so fn
\* can be invoked while the breaker is open
C34_CheckedOnceBeforeFirstAttempt ==
  [][\A p \in Calls :
       /\ (calls[p].pc = "acquired" /\ Moves(p)) =>
            IF ~CBEnabled \/ breaker'.state \in {"closed", "half_open"}
              THEN /\ calls'[p].pc = "awaitFn"
                   /\ calls'[p].attempt = 0 /\ calls'[p].fnCalls = 1
              ELSE /\ Done(p)'
                   /\ calls'[p].outcome.error = CircuitBreakerOpenError
                   /\ calls'[p].fnCalls = 0
       /\ (calls[p].pc = "backoff" /\ Moves(p)) =>
            /\ calls'[p].pc = "awaitFn"
            /\ calls'[p].attempt = calls[p].attempt + 1
            /\ calls'[p].fnCalls = calls[p].fnCalls + 1
            /\ breaker' = breaker
       /\ calls'[p].fnCalls # calls[p].fnCalls =>
            calls[p].pc \in {"acquired", "backoff"}]_vars

\* fn has just been invoked for a retry while the breaker is open and would
\* refuse a new call, another call's failure having opened it
C34_Witness ==
  \E p, q \in Calls :
    /\ p # q
    /\ calls[p].pc = "awaitFn" /\ calls[p].attempt >= 1
    /\ calls[p].invokedAt = now
    /\ breaker.state = "open"
    /\ ~allowRequest(breaker, config.circuitBreaker, now).ret
    /\ Done(q) /\ OpenedBy(q)

\* call p is past acquire: at the breaker check, in an attempt or in backoff
PastAcquire(p) == calls[p].pc \in {"acquired", "awaitFn", "backoff"}

\* C35: each execute call on a manager with an enabled limiter consumes
\* exactly one token, taken before the breaker check; retries take no further
\* token, and a call rejected with CircuitBreakerOpenError has consumed its
\* token
C35_OneTokenPerCall ==
  RLEnabled =>
    \A p \in Calls :
      /\ PastAcquire(p) => calls[p].tokensTaken = 1
      /\ Done(p) => calls[p].tokensTaken = 1

\* C35, amended: a call that gets past acquire consumes exactly one token,
\* taken from the refilled bucket before the breaker check; nothing the call
\* does afterwards (breaker check, attempts, retries, rejection with
\* CircuitBreakerOpenError) touches the limiter; a call that ends with the
\* rate-limiter timeout has consumed none
C35_OneTokenOnceAdmitted ==
  /\ [](RLEnabled =>
          \A p \in Calls :
            /\ calls[p].pc \in {"idle", "acquireSleep"} => calls[p].tokensTaken = 0
            /\ PastAcquire(p) => calls[p].tokensTaken = 1
            /\ Done(p) =>
                 calls[p].tokensTaken =
                   IF calls[p].outcome.error = RateLimiterTimeout THEN 0 ELSE 1)
  /\ [][RLEnabled =>
          \A p \in Calls :
            /\ calls'[p].tokensTaken # calls[p].tokensTaken =>
                 /\ calls[p].pc \in {"idle", "acquireSleep"}
                 /\ calls'[p].pc = "acquired"
                 /\ limiter'.tokens =
                      refill(limiter, config.rateLimiter, now).tokens - TokenUnit
            /\ (PastAcquire(p) /\ Moves(p)) => limiter' = limiter]_vars

\* one call was retried on its single token, the other one timed out in
\* acquire without any
C35_Witness ==
  \E p, q \in Calls :
    /\ RLEnabled
    /\ calls[p].fnCalls >= 2 /\ calls[p].tokensTaken = 1
    /\ Done(q) /\ calls[q].outcome.error = RateLimiterTimeout
    /\ calls[q].tokensTaken = 0

\* =========================================================================
\* Further properties of the collector
\* =========================================================================

\* C36: for every window size getSummary() reports totalRequests,
\* totalSuccesses and totalFailures equal to the numbers of record() calls
\* since construction or the last reset(), and it returns the all-zero summary
\* only when there was no record() call since then
C36_SummaryTotals ==
  probe.op = "getSummary" =>
    /\ probe.summary.totalRequests = Len(probe.log)
    /\ probe.summary.totalSuccesses = SuccessesIn(probe.log)
    /\ probe.summary.totalFailures = Len(probe.log) - SuccessesIn(probe.log)
    /\ probe.summary = EmptySummary => probe.log = <<>>

\* =========================================================================
\* Properties of StreamMeter
\* =========================================================================

\* C37: every charge a StreamMeter with an explicit idempotencyKey K issues
\* carries a key of its own: the i-th charging flush (i from 0) uses
\* K_flush_i, whatever the order or interleaving of add, addSync and flush,
\* also for a flush started while an earlier one awaits its charge and for a
\* flush that follows a failed charge
C37_DistinctKeys ==
  \A i \in 1..Len(probe.charges) :
    /\ probe.charges[i].idempotencyKey = flushKey(config, i - 1)
    /\ \A j \in 1..Len(probe.charges) :
         i # j => probe.charges[i].idempotencyKey # probe.charges[j].idempotencyKey

RECURSIVE SumCharged(_)
\* the sum of the quantities of the first n charges
SumCharged(n) ==
  IF n = 0 THEN 0 ELSE probe.charges[n].quantity + SumCharged(n - 1)

\* C38: usage is neither counted twice nor dropped between add and charge:
\* the quantities handed to the charge function plus the current total (plus
\* what reset threw away, nothing without a reset) make up the sum of the
\* positive quantities added; a flush hands over the whole total and zeroes
\* it before it awaits the charge, so that what is added during a charge
\* waits for the next flush; a flush of total 0 issues no charge
C38_UsageConserved ==
  /\ [](SumCharged(Len(probe.charges)) + probe.total + probe.discarded = probe.added)
  /\ [](\A i \in 1..Len(probe.charges) : probe.charges[i].quantity > 0)
  /\ [][probe'.charges # probe.charges =>
          /\ Len(probe'.charges) = Len(probe.charges) + 1
          /\ SubSeq(probe'.charges, 1, Len(probe.charges)) = probe.charges
          /\ probe'.charges[Len(probe'.charges)].quantity =
               probe.total + (probe'.added - probe.added)
          /\ probe'.total = 0]_vars
  /\ [][(\E p \in Calls : calls[p].pc = "awaitCharge" /\ calls'[p] = calls[p]) =>
          /\ probe'.total >= probe.total \/ probe'.total = 0
          /\ SubSeq(probe'.charges, 1, Len(probe.charges)) = probe.charges]_vars

\* two charges are in flight and more usage has been added since: it waits
\* in total
C38_Witness ==
  /\ \A p \in 1..2 : calls[p].pc = "awaitCharge"
  /\ Len(probe.charges) = 2
  /\ probe.charges[1].quantity = 2 /\ probe.charges[2].quantity = 1
  /\ probe.total = 1
  /\ probe.discarded = 0 /\ probe.added = 4

====
